---- MODULE Spec2Model ----
(***************************************************************************)
(* Model of the ZerePy agent scheduler: ZerePyAgent.__init__,              *)
(* ZerePyAgent._setup_llm_provider and ZerePyAgent.loop (src/src/agent.py).*)
(* One iteration of loop() is split at its blocking points: the replenish  *)
(* call, the task selection, the selected branch, and the two sleeps.      *)
(* A second specification, SpecDispatch, models perform_action of the      *)
(* connections (src/src/connections) and the operations of the             *)
(* ConnectionManager (src/src/connection_manager.py); SpecCredentials      *)
(* models .env, os.environ and the cached clients of the connections;      *)
(* SpecServer models ServerState (src/src/server/app.py); SpecProgress is  *)
(* loop() without KeyboardInterrupt, under weak fairness.                  *)
(***************************************************************************)
EXTENDS Integers, Sequences, FiniteSets, TLC

VARIABLES
    self,              \* attributes of the ZerePyAgent instance (a dict of set attributes)
    state,             \* self.state, the Agent State dict
    last_tweet_time,   \* local of loop()
    success,           \* local of loop()
    action_name,       \* local of loop(): task drawn in this iteration, "none" before the draw
    pc,                \* position of loop()
    now,               \* the clock read by time.time()
    delay,             \* argument of the time.sleep the loop is blocked in
    calls,             \* provider actions invoked in the current iteration, in order
    started_empty,     \* the timeline queue was absent or empty when the iteration began
    raised,            \* provider action (or step) whose error aborted the iteration
    prev,              \* how the previous iteration ended
    interrupt_at,      \* position of loop() when KeyboardInterrupt was delivered, "none" before
    margin,            \* {(now - last_action_time) - interval} of this iteration's cooldown check
    executed_at,       \* per cooldown-gated task, clock reading of its last successful execution
    replied_tweets,    \* ids of the tweets for which the reply-to-tweet call has returned
    reply_target,      \* id of the room message send-message was invoked for in this iteration, 0 if none
    dedup_skipped,     \* this iteration passed over a room message because its id was in the replied set
    connections,       \* ConnectionManager.connections: the names in the registry
    configured,        \* connections whose credentials are present in the environment
    request,           \* the last operation asked of a connection or of the manager
    invoked,           \* connection methods called by that operation, in order
    outcome,           \* what that operation returned or raised
    cred_conn,         \* the connection whose credential is followed
    env_exists,        \* the file .env exists
    dotenv,            \* value of the connection's key in .env, 0 when the key is absent
    environ,           \* value of the connection's key in os.environ, 0 when unset
    client,            \* key the cached self._client was built from, 0 for None
    cred_call,         \* the last operation on the credential and what it used
    agent_loaded,      \* ServerState.cli.agent is set
    agent_running,     \* ServerState.agent_running
    task,              \* position of each invocation of ServerState.start_agent_loop
    began_while_live,  \* the invocation began while another invocation had not ended
    stop_seen,         \* stop_agent_loop was called while the invocation had not ended
    web3,              \* EVMConnection._web3, the client of the last construction
    chain_id,          \* EVMConnection.chain_id, the chain id of the configured network
    attempt,           \* loop variable of _initialize_web3
    web3_pc,           \* position of _initialize_web3
    tries              \* the client each attempt made so far has built

vars == <<self, state, last_tweet_time, success, action_name, pc, now, delay,
          calls, started_empty, raised, prev, interrupt_at, margin, executed_at,
          replied_tweets, reply_target, dedup_skipped,
          connections, configured, request, invoked, outcome,
          cred_conn, env_exists, dotenv, environ, client, cred_call,
          agent_loaded, agent_running, task, began_while_live, stop_seen,
          web3, chain_id, attempt, web3_pc, tries>>

loop_vars == <<self, state, last_tweet_time, success, action_name, pc, now, delay,
               calls, started_empty, raised, prev, interrupt_at, margin, executed_at,
               replied_tweets, reply_target, dedup_skipped>>

dispatch_vars == <<connections, configured, request, invoked, outcome>>

cred_vars == <<cred_conn, env_exists, dotenv, environ, client, cred_call>>

server_vars == <<agent_loaded, agent_running, task, began_while_live, stop_seen>>

web3_vars == <<web3, chain_id, attempt, web3_pc, tries>>

\* what each component of the program leaves alone
outside_loop == <<dispatch_vars, cred_vars, server_vars, web3_vars>>

outside_dispatch == <<loop_vars, cred_vars, server_vars, web3_vars>>

outside_credentials == <<loop_vars, dispatch_vars, server_vars, web3_vars>>

outside_server == <<loop_vars, dispatch_vars, cred_vars, web3_vars>>

outside_web3 == <<loop_vars, dispatch_vars, cred_vars, server_vars>>

-----------------------------------------------------------------------------
(* Bounds of the model *)

MaxTicks == 4          \* clock readings range over StartTime .. StartTime + MaxTicks
MaxId == 1             \* tweet ids 1..MaxId; 0 stands for a missing id
MaxBatch == 2          \* longest timeline batch returned by read-timeline
MaxQueue == 3          \* longest timeline queue (own-tweet replies extend it)
MaxMsgId == 2          \* room message ids 1..MaxMsgId; 0 stands for a missing field
MaxHistory == 2        \* longest room history returned by get-room-history

-----------------------------------------------------------------------------
(* Python helpers *)

\* str.startswith
StartsWith(s, prefix) ==
    /\ Len(s) >= Len(prefix)
    /\ SubSeq(s, 1, Len(prefix)) = prefix

\* dict.get(key, default)
Get(d, key, default) == IF key \in DOMAIN d THEN d[key] ELSE default

\* hasattr(self, a): reading an attribute that was never assigned raises AttributeError
HasAttr(a) == a \in DOMAIN self

\* dict with one more key assigned
Assign(d, key, value) == [k \in DOMAIN d \cup {key} |-> IF k = key THEN value ELSE d[k]]

-----------------------------------------------------------------------------
(* Program constants *)

DefaultTweetInterval == 900
DefaultOwnTweetRepliesCount == 2
DefaultMessageInterval == 60
FallbackDelay == 60

\* time.time() is seconds since the epoch, far beyond any configured interval
StartTime == DefaultTweetInterval + 100

-----------------------------------------------------------------------------
(* Agent profiles (agents/<name>.json) *)

Task(n, w) == [name |-> n, weight |-> w]

TaskLists ==
    { << Task("post-tweet", 1), Task("reply-to-tweet", 1), Task("like-tweet", 1) >>,
      << Task("post-tweet", 1), Task("reply-to-tweet", 1), Task("like-tweet", 1),
         [name |-> "tweet-scan"] >>,
      << Task("post-tweet", 1), Task("post-echochambers", 1) >>,
      << Task("like-tweet", 1), Task("post-echochambers", 1), Task("tweet-scan", 1) >>,
      << Task("reply-echochambers", 1), Task("post-echochambers", 1), Task("like-tweet", 0) >>,
      << Task("post-tweet", 0), Task("like-tweet", 0) >>,
      << [name |-> "tweet-scan"] >>,
      << Task("like-tweet", 1) >>,
      << >> }

\* agent_dict["config"], keyed by the "name" of each block
Configs ==
    { [twitter |-> [tweet_interval |-> 2], echochambers |-> [message_interval |-> 2]],
      [twitter |-> [name |-> "twitter"], echochambers |-> [message_interval |-> 2]],
      [twitter |-> [tweet_interval |-> 2]],
      [openai |-> [model |-> "gpt"]] }

LoopDelays == {30, 900}

Tweets == [id : 0..MaxId, own : BOOLEAN]

\* a message of the room history: its id (0 when id, sender or content is missing)
\* and whether its sender is the agent's own sender_username
Messages == [id : 0..MaxMsgId, own : BOOLEAN]

RECURSIVE SeqsUpTo(_, _)
SeqsUpTo(S, n) ==
    IF n = 0 THEN { <<>> }
    ELSE LET shorter == SeqsUpTo(S, n - 1)
         IN  shorter \cup { Append(q, x) : q \in { r \in shorter : Len(r) = n - 1 }, x \in S }

-----------------------------------------------------------------------------
(* ZerePyAgent.__init__ *)

has_twitter_tasks(tasks) ==
    \E i \in DOMAIN tasks :
        \/ StartsWith(tasks[i].name, "tweet")
        \/ StartsWith(tasks[i].name, "like-tweet")

ZerePyAgent_init(tasks, config, loop_delay) ==
    LET twitter_set == has_twitter_tasks(tasks) /\ "twitter" \in DOMAIN config
        echo_set    == "echochambers" \in DOMAIN config
        attrs == {"tasks", "task_weights", "loop_delay"}
                 \cup (IF twitter_set THEN {"tweet_interval", "own_tweet_replies_count"} ELSE {})
                 \cup (IF echo_set THEN {"echochambers_message_interval"} ELSE {})
    IN  [a \in attrs |->
            CASE a = "tasks" -> tasks
              [] a = "task_weights" -> [i \in DOMAIN tasks |-> Get(tasks[i], "weight", 0)]
              [] a = "loop_delay" -> loop_delay
              [] a = "tweet_interval" ->
                    Get(config["twitter"], "tweet_interval", DefaultTweetInterval)
              [] a = "own_tweet_replies_count" ->
                    Get(config["twitter"], "own_tweet_replies_count", DefaultOwnTweetRepliesCount)
              [] a = "echochambers_message_interval" ->
                    Get(config["echochambers"], "message_interval", DefaultMessageInterval)]

\* ConnectionManager.__init__
Registry == {"twitter", "openai"}

NoRequest ==
    [op |-> "none", conn |-> "none", action |-> "none", errors |-> << >>,
     supplied |-> TRUE, configured |-> FALSE]

NoOutcome == [kind |-> "none"]

ManagerInit ==
    /\ connections = Registry
    /\ request = NoRequest
    /\ invoked = << >>
    /\ outcome = NoOutcome

\* no credential operation has run: a fresh process, nothing stored
NoCredCall == [op |-> "none"]

CredIdle ==
    /\ cred_conn = "twitter"
    /\ env_exists = FALSE
    /\ dotenv = 0
    /\ environ = 0
    /\ client = 0
    /\ cred_call = NoCredCall

\* ServerState.__init__ (no start request yet)
ServerIdle ==
    /\ agent_loaded = FALSE
    /\ agent_running = FALSE
    /\ task = << >>
    /\ began_while_live = << >>
    /\ stop_seen = << >>

\* no client: the attribute _web3 is not set
NoClient == [constructed |-> FALSE, connected |-> FALSE, chain |-> 0]

\* no EVMConnection is being constructed
Web3Idle ==
    /\ web3 = NoClient
    /\ chain_id = 1
    /\ attempt = 0
    /\ web3_pc = "idle"
    /\ tries = << >>

LoopInit(tasks, config, loop_delay) ==
    /\ self = ZerePyAgent_init(tasks, config, loop_delay)
    /\ state = [k \in {} |-> 0]
    /\ last_tweet_time = 0
    /\ success = FALSE
    /\ action_name = "none"
    /\ pc = "start"
    /\ now = StartTime
    /\ delay = 0
    /\ calls = << >>
    /\ started_empty = TRUE
    /\ raised = "none"
    /\ prev = "none"
    /\ interrupt_at = "none"
    /\ margin = {}
    /\ executed_at = [t \in {"post-tweet", "post-echochambers"} |-> 0]
    /\ replied_tweets = {}
    /\ reply_target = 0
    /\ dedup_skipped = FALSE

Init ==
    /\ \E tasks \in TaskLists, config \in Configs, loop_delay \in LoopDelays :
          LoopInit(tasks, config, loop_delay)
    /\ ManagerInit
    /\ configured = {}
    /\ CredIdle
    /\ ServerIdle
    /\ Web3Idle

-----------------------------------------------------------------------------
(* ZerePyAgent._setup_llm_provider and the start of loop(), lines 111-126 *)

any_tweet_task(tasks) ==
    \E i \in DOMAIN tasks : StartsWith(tasks[i].name, "tweet")

\* username is assigned only when some task name starts with "tweet"
setup_llm_provider(agent) ==
    IF any_tweet_task(agent["tasks"]) THEN Assign(agent, "username", "me") ELSE agent

\* lines 113-120: the provider is set up and the countdown begins
StartLoop ==
    /\ pc = "start"
    /\ self' = setup_llm_provider(self)
    /\ pc' = "countdown"
    /\ UNCHANGED <<state, last_tweet_time, success, action_name, now, delay, calls,
                   started_empty, raised, prev, interrupt_at, margin, executed_at,
                   replied_tweets, reply_target, dedup_skipped>>
    /\ UNCHANGED outside_loop

\* lines 120-131: the sleeps of the countdown are over, while True is entered
Countdown ==
    /\ pc = "countdown"
    /\ last_tweet_time' = 0
    /\ pc' = "replenish"
    /\ UNCHANGED <<self, state, success, action_name, now, delay, calls,
                   started_empty, raised, prev, interrupt_at, margin, executed_at,
                   replied_tweets, reply_target, dedup_skipped>>
    /\ UNCHANGED outside_loop

\* faulty variant: the interrupt is swallowed and the loop is entered
CountdownInterrupt_swallowed ==
    /\ pc = "countdown"
    /\ interrupt_at' = pc
    /\ pc' = "replenish"
    /\ UNCHANGED <<self, state, last_tweet_time, success, action_name, now, delay,
                   calls, started_empty, raised, prev, margin, executed_at,
                   replied_tweets, reply_target, dedup_skipped>>
    /\ UNCHANGED outside_loop

\* KeyboardInterrupt during time.sleep of lines 120-124: the sleeps are outside
\* the try of line 128, so the interrupt leaves loop()
CountdownInterrupt ==
    /\ pc = "countdown"
    /\ interrupt_at' = pc
    /\ pc' = "ABORTED"
    /\ UNCHANGED <<self, state, last_tweet_time, success, action_name, now, delay,
                   calls, started_empty, raised, prev, margin, executed_at,
                   replied_tweets, reply_target, dedup_skipped>>
    /\ UNCHANGED outside_loop

-----------------------------------------------------------------------------
(* The ends of an iteration *)

\* faulty variant: no handler at the iteration boundary, the error leaves loop()
OnException_propagates(what) ==
    /\ raised' = what
    /\ prev' = "error"
    /\ delay' = delay
    /\ pc' = "CRASHED"

\* faulty variant: the handler sleeps the fixed 60 seconds
OnException_fallback(what) ==
    /\ raised' = what
    /\ prev' = "error"
    /\ delay' = FallbackDelay
    /\ pc' = "errsleep"

\* lines 337-340: except Exception: log, time.sleep(self.loop_delay)
OnException(what) ==
    /\ raised' = what
    /\ prev' = "error"
    /\ delay' = self["loop_delay"]
    /\ pc' = "errsleep"

\* faulty variant: the sleep ignores the success flag
SleepDelay_always_loop_delay(ok) == self["loop_delay"]

\* lines 333-335: time.sleep(self.loop_delay if success else 60)
SleepDelay(ok) == IF ok THEN self["loop_delay"] ELSE FallbackDelay

\* faulty variant: the flag is raised whether or not an action was performed
EndIteration_flagged(ok) ==
    /\ success' = TRUE
    /\ raised' = "none"
    /\ prev' = IF ok THEN "success" ELSE "noaction"
    /\ delay' = SleepDelay(ok)
    /\ pc' = "sleep"

\* lines 333-335: the iteration reaches its sleep with the flag it has set
EndIteration(ok) ==
    /\ success' = ok
    /\ raised' = "none"
    /\ prev' = IF ok THEN "success" ELSE "noaction"
    /\ delay' = SleepDelay(ok)
    /\ pc' = "sleep"

\* `continue` inside while True: the next iteration begins at once
Continue ==
    /\ raised' = "none"
    /\ prev' = "continue"
    /\ pc' = "replenish"
    /\ UNCHANGED <<success, delay>>

\* time.sleep returns (line 335 or line 340) and while True starts over
WakeUp ==
    /\ pc \in {"sleep", "errsleep"}
    /\ pc' = "replenish"
    /\ UNCHANGED <<self, state, last_tweet_time, success, action_name, now, delay,
                   calls, started_empty, raised, prev, interrupt_at, margin, executed_at,
                   replied_tweets, reply_target, dedup_skipped>>
    /\ UNCHANGED outside_loop

\* lines 342-344: KeyboardInterrupt is not an Exception, so only the outer
\* handler catches it, wherever in the iteration it is delivered
InLoop == pc \in {"replenish", "select", "perform", "sleep", "errsleep"}

\* faulty variant: the inner handler catches BaseException, so an interrupt delivered
\* inside the try block is treated as an iteration error
KeyboardInterrupt_caught ==
    /\ InLoop
    /\ interrupt_at' = pc
    /\ pc' = IF pc = "errsleep" THEN "STOPPED" ELSE "errsleep"
    /\ UNCHANGED <<self, state, last_tweet_time, success, action_name, now, delay,
                   calls, started_empty, raised, prev, margin, executed_at,
                   replied_tweets, reply_target, dedup_skipped>>
    /\ UNCHANGED outside_loop

KeyboardInterrupt ==
    /\ InLoop
    /\ interrupt_at' = pc
    /\ pc' = "STOPPED"
    /\ UNCHANGED <<self, state, last_tweet_time, success, action_name, now, delay,
                   calls, started_empty, raised, prev, margin, executed_at,
                   replied_tweets, reply_target, dedup_skipped>>
    /\ UNCHANGED outside_loop

\* the wall clock advances
Tick ==
    /\ now < StartTime + MaxTicks
    /\ now' = now + 1
    /\ UNCHANGED <<self, state, last_tweet_time, success, action_name, pc, delay,
                   calls, started_empty, raised, prev, interrupt_at, margin, executed_at,
                   replied_tweets, reply_target, dedup_skipped>>
    /\ UNCHANGED outside_loop

-----------------------------------------------------------------------------
(* REPLENISH INPUTS, lines 130-141 *)

QueueEmpty(st) ==
    \/ "timeline_tweets" \notin DOMAIN st
    \/ Len(st["timeline_tweets"]) = 0

NeedsTimeline(tasks) ==
    \E i \in DOMAIN tasks : StartsWith(tasks[i].name, "tweet")

Replenish ==
    /\ pc = "replenish"
    /\ started_empty' = QueueEmpty(state)
    /\ action_name' = "none"
    /\ margin' = {}
    /\ IF QueueEmpty(state) /\ NeedsTimeline(self["tasks"])
       THEN /\ calls' = << "read-timeline" >>
            /\ \/ \E batch \in SeqsUpTo(Tweets, MaxBatch) :
                    /\ state' = Assign(state, "timeline_tweets", batch)
                    /\ success' = FALSE
                    /\ raised' = "none"
                    /\ pc' = "select"
                    /\ UNCHANGED <<prev, delay>>
               \/ /\ OnException("read-timeline")
                  /\ success' = FALSE
                  /\ UNCHANGED state
       ELSE /\ calls' = << >>
            /\ success' = FALSE
            /\ raised' = "none"
            /\ pc' = "select"
            /\ UNCHANGED <<state, prev, delay>>
    /\ reply_target' = 0
    /\ dedup_skipped' = FALSE
    /\ UNCHANGED <<self, last_tweet_time, now, interrupt_at, executed_at, replied_tweets>>
    /\ UNCHANGED outside_loop

-----------------------------------------------------------------------------
(* CHOOSE AN ACTION, lines 143-146 *)

RECURSIVE SumTo(_, _)
SumTo(w, n) == IF n = 0 THEN 0 ELSE w[n] + SumTo(w, n - 1)

\* faulty variant: the draw is uniform over the tasks
Choosable_uniform(weights) == DOMAIN weights

\* random.choices(population, weights, k=1)[0]: an index of positive weight;
\* an empty population or a zero total raises
Choosable(weights) == { i \in DOMAIN weights : weights[i] > 0 }

\* faulty variant: the total of the weights is not checked, and the bisection of an
\* all-zero cumulative list lands on the last task
Select_unchecked_total ==
    /\ pc = "select"
    /\ IF Len(self["tasks"]) = 0
       THEN /\ OnException("random.choices")
            /\ UNCHANGED action_name
       ELSE /\ \E i \in (IF Choosable(self["task_weights"]) = {}
                         THEN {Len(self["tasks"])}
                         ELSE Choosable(self["task_weights"])) :
                    action_name' = self["tasks"][i].name
            /\ pc' = "perform"
            /\ UNCHANGED <<raised, prev, delay>>
    /\ UNCHANGED <<self, state, last_tweet_time, success, now, calls, started_empty,
                   interrupt_at, margin, executed_at,
                   replied_tweets, reply_target, dedup_skipped>>
    /\ UNCHANGED outside_loop

Select ==
    /\ pc = "select"
    /\ IF Len(self["tasks"]) = 0 \/ SumTo(self["task_weights"], Len(self["task_weights"])) <= 0
       THEN /\ OnException("random.choices")
            /\ UNCHANGED action_name
       ELSE /\ \E i \in Choosable(self["task_weights"]) :
                    action_name' = self["tasks"][i].name
            /\ pc' = "perform"
            /\ UNCHANGED <<raised, prev, delay>>
    /\ UNCHANGED <<self, state, last_tweet_time, success, now, calls, started_empty,
                   interrupt_at, margin, executed_at,
                   replied_tweets, reply_target, dedup_skipped>>
    /\ UNCHANGED outside_loop

-----------------------------------------------------------------------------
(* Outcomes of the provider calls made through connection_manager.perform_action *)

\* generate-text returns the completion text; "" is the falsy result
LlmTexts == {"", "text"}

Min(a, b) == IF a < b THEN a ELSE b

\* list[:n]
Prefix(list, n) == SubSeq(list, 1, Min(n, Len(list)))

-----------------------------------------------------------------------------
(* PERFORM ACTION: post-tweet, lines 149-175 *)

\* faulty variant: the interval is not checked
TweetIntervalElapsed_unchecked(current_time, last, interval) == TRUE

\* line 152
TweetIntervalElapsed(current_time, last, interval) == current_time - last >= interval

PostTweet ==
    /\ pc = "perform"
    /\ action_name = "post-tweet"
    /\ LET current_time == now IN
       IF ~HasAttr("tweet_interval")
       THEN /\ OnException("AttributeError")
            /\ UNCHANGED <<last_tweet_time, success, calls>>
       ELSE IF TweetIntervalElapsed(current_time, last_tweet_time, self["tweet_interval"])
       THEN \/ /\ calls' = Append(calls, "generate-text")
               /\ OnException("generate-text")
               /\ UNCHANGED <<last_tweet_time, success>>
            \/ \E tweet_text \in LlmTexts :
                 IF tweet_text = ""
                 THEN /\ calls' = Append(calls, "generate-text")
                      /\ EndIteration(FALSE)
                      /\ UNCHANGED last_tweet_time
                 ELSE /\ calls' = calls \o << "generate-text", "post-tweet" >>
                      /\ \/ /\ OnException("post-tweet")
                            /\ UNCHANGED <<last_tweet_time, success>>
                         \/ /\ last_tweet_time' = current_time
                            /\ EndIteration(TRUE)
       ELSE /\ Continue
            /\ UNCHANGED <<last_tweet_time, calls>>
    /\ margin' = IF HasAttr("tweet_interval")
                 THEN {(now - last_tweet_time) - self["tweet_interval"]}
                 ELSE margin
    /\ executed_at' = IF success' THEN [executed_at EXCEPT !["post-tweet"] = now]
                      ELSE executed_at
    /\ UNCHANGED <<self, state, action_name, now, started_empty, interrupt_at,
                   replied_tweets, reply_target, dedup_skipped>>
    /\ UNCHANGED outside_loop

-----------------------------------------------------------------------------
(* PERFORM ACTION: reply-to-tweet, lines 177-216 *)

ReplyToTweet ==
    /\ pc = "perform"
    /\ action_name = "reply-to-tweet"
    /\ IF ~QueueEmpty(state)
       THEN LET tweet == Head(state["timeline_tweets"])
                popped == Assign(state, "timeline_tweets", Tail(state["timeline_tweets"]))
            IN  IF tweet.id = 0
                THEN /\ state' = popped
                     /\ Continue
                     /\ UNCHANGED calls
                ELSE IF ~HasAttr("username")
                THEN /\ state' = popped
                     /\ OnException("AttributeError")
                     /\ UNCHANGED <<success, calls>>
                ELSE IF tweet.own
                THEN /\ calls' = Append(calls, "get-tweet-replies")
                     /\ \/ /\ state' = popped
                           /\ OnException("get-tweet-replies")
                           /\ UNCHANGED success
                        \/ \E replies \in SeqsUpTo(Tweets, MaxBatch) :
                             IF Len(replies) = 0
                             THEN /\ state' = popped
                                  /\ Continue
                             ELSE IF ~HasAttr("own_tweet_replies_count")
                             THEN /\ state' = popped
                                  /\ OnException("AttributeError")
                                  /\ UNCHANGED success
                             ELSE LET extended == popped["timeline_tweets"]
                                        \o Prefix(replies, self["own_tweet_replies_count"])
                                  IN  /\ Len(extended) <= MaxQueue
                                      /\ state' = Assign(popped, "timeline_tweets", extended)
                                      /\ Continue
                ELSE /\ state' = popped
                     /\ \/ /\ calls' = Append(calls, "generate-text")
                           /\ OnException("generate-text")
                           /\ UNCHANGED success
                        \/ \E reply_text \in LlmTexts :
                             IF reply_text = ""
                             THEN /\ calls' = Append(calls, "generate-text")
                                  /\ EndIteration(FALSE)
                             ELSE /\ calls' = calls \o << "generate-text", "reply-to-tweet" >>
                                  /\ \/ /\ OnException("reply-to-tweet")
                                        /\ UNCHANGED success
                                     \/ EndIteration(TRUE)
       ELSE /\ EndIteration(FALSE)
            /\ UNCHANGED <<state, calls>>
    /\ replied_tweets' = IF success'
                         THEN replied_tweets \cup {Head(state["timeline_tweets"]).id}
                         ELSE replied_tweets
    /\ UNCHANGED <<self, last_tweet_time, action_name, now, started_empty, interrupt_at,
                   margin, executed_at, reply_target, dedup_skipped>>
    /\ UNCHANGED outside_loop

-----------------------------------------------------------------------------
(* PERFORM ACTION: like-tweet, lines 218-234 *)

\* faulty variant: the item is taken from the back of the queue
LikeTweet_lifo ==
    /\ pc = "perform"
    /\ action_name = "like-tweet"
    /\ IF ~QueueEmpty(state)
       THEN LET queue == state["timeline_tweets"]
                tweet == queue[Len(queue)]
                popped == Assign(state, "timeline_tweets", SubSeq(queue, 1, Len(queue) - 1))
            IN  /\ state' = popped
                /\ IF tweet.id = 0
                   THEN /\ Continue
                        /\ UNCHANGED calls
                   ELSE /\ calls' = Append(calls, "like-tweet")
                        /\ \/ /\ OnException("like-tweet")
                              /\ UNCHANGED success
                           \/ EndIteration(TRUE)
       ELSE /\ EndIteration(FALSE)
            /\ UNCHANGED <<state, calls>>
    /\ UNCHANGED <<self, last_tweet_time, action_name, now, started_empty, interrupt_at,
                   margin, executed_at, replied_tweets, reply_target, dedup_skipped>>
    /\ UNCHANGED outside_loop

\* faulty variant: the item stays in the queue when the like-tweet call fails
LikeTweet_requeue ==
    /\ pc = "perform"
    /\ action_name = "like-tweet"
    /\ IF ~QueueEmpty(state)
       THEN LET tweet == Head(state["timeline_tweets"])
                popped == Assign(state, "timeline_tweets", Tail(state["timeline_tweets"]))
            IN  IF tweet.id = 0
                THEN /\ state' = popped
                     /\ Continue
                     /\ UNCHANGED calls
                ELSE /\ calls' = Append(calls, "like-tweet")
                     /\ \/ /\ OnException("like-tweet")
                           /\ UNCHANGED <<state, success>>
                        \/ /\ state' = popped
                           /\ EndIteration(TRUE)
       ELSE /\ EndIteration(FALSE)
            /\ UNCHANGED <<state, calls>>
    /\ UNCHANGED <<self, last_tweet_time, action_name, now, started_empty, interrupt_at,
                   margin, executed_at, replied_tweets, reply_target, dedup_skipped>>
    /\ UNCHANGED outside_loop

\* faulty variant: a failed like-tweet call is repeated once before giving up
LikeTweet_retry ==
    /\ pc = "perform"
    /\ action_name = "like-tweet"
    /\ IF ~QueueEmpty(state)
       THEN LET tweet == Head(state["timeline_tweets"])
                popped == Assign(state, "timeline_tweets", Tail(state["timeline_tweets"]))
            IN  /\ state' = popped
                /\ IF tweet.id = 0
                   THEN /\ Continue
                        /\ UNCHANGED calls
                   ELSE \/ /\ calls' = Append(calls, "like-tweet")
                           /\ EndIteration(TRUE)
                        \/ /\ calls' = calls \o << "like-tweet", "like-tweet" >>
                           /\ \/ /\ OnException("like-tweet")
                                 /\ UNCHANGED success
                              \/ EndIteration(TRUE)
       ELSE /\ EndIteration(FALSE)
            /\ UNCHANGED <<state, calls>>
    /\ UNCHANGED <<self, last_tweet_time, action_name, now, started_empty, interrupt_at,
                   margin, executed_at, replied_tweets, reply_target, dedup_skipped>>
    /\ UNCHANGED outside_loop

LikeTweet ==
    /\ pc = "perform"
    /\ action_name = "like-tweet"
    /\ IF ~QueueEmpty(state)
       THEN LET tweet == Head(state["timeline_tweets"])
                popped == Assign(state, "timeline_tweets", Tail(state["timeline_tweets"]))
            IN  /\ state' = popped
                /\ IF tweet.id = 0
                   THEN /\ Continue
                        /\ UNCHANGED calls
                   ELSE /\ calls' = Append(calls, "like-tweet")
                        /\ \/ /\ OnException("like-tweet")
                              /\ UNCHANGED success
                           \/ EndIteration(TRUE)
       ELSE /\ EndIteration(FALSE)
            /\ UNCHANGED <<state, calls>>
    /\ UNCHANGED <<self, last_tweet_time, action_name, now, started_empty, interrupt_at, margin, executed_at,
                   replied_tweets, reply_target, dedup_skipped>>
    /\ UNCHANGED outside_loop

-----------------------------------------------------------------------------
(* Handle Echochambers tasks: post-echochambers, lines 237-273 *)

\* line 253
MessageIntervalElapsed(current_time, last, interval) == current_time - last > interval

\* lines 247-251: Initialize state
InitEchoState(st) ==
    [k \in DOMAIN st \cup {"echochambers_last_message", "echochambers_replied_messages"} |->
        IF k \in DOMAIN st THEN st[k]
        ELSE IF k = "echochambers_last_message" THEN 0 ELSE {}]

PostEchochambers ==
    /\ pc = "perform"
    /\ StartsWith(action_name, "post-echochambers")
    /\ LET current_time == now
           st == InitEchoState(state)
       IN  \/ /\ calls' = Append(calls, "get-room-info")
              /\ OnException("get-room-info")
              /\ UNCHANGED <<state, success>>
           \/ IF action_name = "post-echochambers"
              THEN IF ~HasAttr("echochambers_message_interval")
                   THEN /\ calls' = Append(calls, "get-room-info")
                        /\ state' = st
                        /\ OnException("AttributeError")
                        /\ UNCHANGED success
                   ELSE IF MessageIntervalElapsed(current_time, st["echochambers_last_message"],
                                                  self["echochambers_message_interval"])
                   THEN \/ /\ calls' = calls \o << "get-room-info", "generate-text" >>
                           /\ state' = st
                           /\ OnException("generate-text")
                           /\ UNCHANGED success
                        \/ \E message \in LlmTexts :
                             IF message = ""
                             THEN /\ calls' = calls \o << "get-room-info", "generate-text" >>
                                  /\ state' = st
                                  /\ EndIteration(FALSE)
                             ELSE /\ calls' = calls \o << "get-room-info", "generate-text",
                                                         "send-message" >>
                                  /\ \/ /\ state' = st
                                        /\ OnException("send-message")
                                        /\ UNCHANGED success
                                     \/ /\ state' = Assign(st, "echochambers_last_message",
                                                           current_time)
                                        /\ EndIteration(TRUE)
                   ELSE /\ calls' = Append(calls, "get-room-info")
                        /\ state' = st
                        /\ EndIteration(FALSE)
              ELSE /\ calls' = Append(calls, "get-room-info")
                   /\ state' = st
                   /\ EndIteration(FALSE)
    /\ margin' = IF raised' # "get-room-info" /\ action_name = "post-echochambers"
                    /\ HasAttr("echochambers_message_interval")
                 THEN {(now - InitEchoState(state)["echochambers_last_message"])
                       - self["echochambers_message_interval"]}
                 ELSE margin
    /\ executed_at' = IF success' THEN [executed_at EXCEPT !["post-echochambers"] = now]
                      ELSE executed_at
    /\ UNCHANGED <<self, last_tweet_time, action_name, now, started_empty, interrupt_at,
                   replied_tweets, reply_target, dedup_skipped>>
    /\ UNCHANGED outside_loop

-----------------------------------------------------------------------------
(* Handle Echochambers tasks: reply-echochambers, lines 237-251 and 275-331 *)

\* [x] * n
RECURSIVE Repeat(_, _)
Repeat(x, n) == IF n = 0 THEN << >> ELSE Append(Repeat(x, n - 1), x)

\* faulty variant: the replied set is not consulted
Eligible_ignores_replied(message, replied) ==
    /\ message.id # 0
    /\ ~message.own

\* lines 297-306: a message is answered unless a field is missing, it is the
\* agent's own, or its id is in the replied set
Eligible(message, replied) ==
    /\ message.id # 0
    /\ ~message.own
    /\ message.id \notin replied

\* faulty variant: the message id is recorded before send-message is invoked
ReplyLoop_records_first(st, history) ==
    LET replied == st["echochambers_replied_messages"]
        cand == { j \in 1..Len(history) : Eligible(history[j], replied) }
        Prompted(stop) == Cardinality({ j \in cand : j <= stop })
        Skipped(stop) == \E j \in 1..stop :
                            /\ history[j].id # 0
                            /\ ~history[j].own
                            /\ history[j].id \in replied
        fetched == calls \o << "get-room-info", "get-room-history" >>
    IN  \/ \* the LLM returned no text for any eligible message
           /\ calls' = fetched \o Repeat("generate-text", Cardinality(cand))
           /\ state' = st
           /\ dedup_skipped' = Skipped(Len(history))
           /\ EndIteration(FALSE)
           /\ UNCHANGED reply_target
        \/ \E stop \in cand :
             /\ dedup_skipped' = Skipped(stop)
             /\ \/ /\ calls' = fetched \o Repeat("generate-text", Prompted(stop))
                   /\ state' = st
                   /\ OnException("generate-text")
                   /\ UNCHANGED <<success, reply_target>>
                \/ /\ calls' = fetched \o Repeat("generate-text", Prompted(stop))
                                       \o << "send-message" >>
                   /\ reply_target' = history[stop].id
                   /\ state' = Assign(st, "echochambers_replied_messages",
                                      replied \cup {history[stop].id})
                   /\ \/ /\ OnException("send-message")
                         /\ UNCHANGED success
                      \/ EndIteration(TRUE)

\* lines 292-329: for message in history, up to the first non-empty reply
ReplyLoop(st, history) ==
    LET replied == st["echochambers_replied_messages"]
        cand == { j \in 1..Len(history) : Eligible(history[j], replied) }
        Prompted(stop) == Cardinality({ j \in cand : j <= stop })
        Skipped(stop) == \E j \in 1..stop :
                            /\ history[j].id # 0
                            /\ ~history[j].own
                            /\ history[j].id \in replied
        fetched == calls \o << "get-room-info", "get-room-history" >>
    IN  \/ \* the LLM returned no text for any eligible message
           /\ calls' = fetched \o Repeat("generate-text", Cardinality(cand))
           /\ state' = st
           /\ dedup_skipped' = Skipped(Len(history))
           /\ EndIteration(FALSE)
           /\ UNCHANGED reply_target
        \/ \E stop \in cand :
             /\ dedup_skipped' = Skipped(stop)
             /\ \/ /\ calls' = fetched \o Repeat("generate-text", Prompted(stop))
                   /\ state' = st
                   /\ OnException("generate-text")
                   /\ UNCHANGED <<success, reply_target>>
                \/ /\ calls' = fetched \o Repeat("generate-text", Prompted(stop))
                                       \o << "send-message" >>
                   /\ reply_target' = history[stop].id
                   /\ \/ /\ state' = st
                         /\ OnException("send-message")
                         /\ UNCHANGED success
                      \/ /\ state' = Assign(st, "echochambers_replied_messages",
                                            replied \cup {history[stop].id})
                         /\ EndIteration(TRUE)

ReplyEchochambers ==
    /\ pc = "perform"
    /\ StartsWith(action_name, "reply-echochambers")
    /\ LET st == InitEchoState(state)
       IN  \/ /\ calls' = Append(calls, "get-room-info")
              /\ OnException("get-room-info")
              /\ UNCHANGED <<state, success, reply_target, dedup_skipped>>
           \/ IF action_name = "reply-echochambers"
              THEN \/ /\ calls' = calls \o << "get-room-info", "get-room-history" >>
                      /\ state' = st
                      /\ OnException("get-room-history")
                      /\ UNCHANGED <<success, reply_target, dedup_skipped>>
                   \/ \E history \in SeqsUpTo(Messages, MaxHistory) :
                        ReplyLoop(st, history)
              ELSE /\ calls' = Append(calls, "get-room-info")
                   /\ state' = st
                   /\ EndIteration(FALSE)
                   /\ UNCHANGED <<reply_target, dedup_skipped>>
    /\ UNCHANGED <<self, last_tweet_time, action_name, now, started_empty, interrupt_at,
                   margin, executed_at, replied_tweets>>
    /\ UNCHANGED outside_loop

-----------------------------------------------------------------------------
(* A task name that matches no branch of lines 149-331 falls through to the sleep *)

KnownTask(name) ==
    \/ name \in {"post-tweet", "reply-to-tweet", "like-tweet"}
    \/ StartsWith(name, "post-echochambers")
    \/ StartsWith(name, "reply-echochambers")

OtherTask ==
    /\ pc = "perform"
    /\ ~KnownTask(action_name)
    /\ EndIteration(FALSE)
    /\ UNCHANGED <<self, state, last_tweet_time, action_name, now, calls, started_empty,
                   interrupt_at, margin, executed_at,
                   replied_tweets, reply_target, dedup_skipped>>
    /\ UNCHANGED outside_loop

-----------------------------------------------------------------------------

Next ==
    \/ StartLoop
    \/ Countdown
    \/ CountdownInterrupt
    \/ Replenish
    \/ Select
    \/ PostTweet
    \/ ReplyToTweet
    \/ LikeTweet
    \/ PostEchochambers
    \/ ReplyEchochambers
    \/ OtherTask
    \/ WakeUp
    \/ KeyboardInterrupt
    \/ Tick

Spec == Init /\ [][Next]_vars

TypeOK ==
    /\ pc \in {"start", "countdown", "ABORTED", "replenish", "select", "perform",
             "sleep", "errsleep", "STOPPED"}
    /\ success \in BOOLEAN
    /\ now \in StartTime .. StartTime + MaxTicks
    /\ interrupt_at \in {"none", "countdown", "replenish", "select", "perform", "sleep",
                       "errsleep"}

-----------------------------------------------------------------------------
(* Properties of the scheduler loop *)

LoopPositions == {"replenish", "select", "perform", "sleep", "errsleep"}

\* C1: once the iteration loop is entered it is left only by KeyboardInterrupt:
\* a step that raises an error ends in the handler's sleep, never outside the
\* loop, and from that sleep the loop goes on to the replenish of the next
\* iteration unless it is cancelled.
C1_FaultIsolation ==
    [][ /\ (pc \in LoopPositions => pc' \in LoopPositions \cup {"STOPPED"})
        /\ (pc \in LoopPositions /\ pc' = "STOPPED" =>
                interrupt_at = "none" /\ interrupt_at' # "none")
        /\ (pc \in {"replenish", "select", "perform"} /\ raised' # "none" /\ pc' # pc
                /\ interrupt_at' = interrupt_at => pc' = "errsleep")
        /\ (pc = "errsleep" /\ pc' # pc /\ interrupt_at' = interrupt_at =>
                pc' = "replenish")
      ]_vars

\* an iteration that was aborted by an error is followed by the selection of the next one
C1_Witness == prev = "error" /\ pc = "select" /\ interrupt_at = "none"

\* C2: a KeyboardInterrupt delivered during either sleep stops the loop with no
\* further task selection and no further provider call, and nothing follows STOPPED.
C2_StopDuringSleep ==
    [][ /\ (pc \in {"sleep", "errsleep"} /\ interrupt_at' # interrupt_at =>
                /\ pc' = "STOPPED"
                /\ action_name' = action_name
                /\ calls' = calls
                /\ state' = state)
        /\ (pc = "STOPPED" =>
                /\ pc' = "STOPPED"
                /\ action_name' = action_name
                /\ calls' = calls
                /\ state' = state)
      ]_vars

C2_Witness == pc = "STOPPED" /\ interrupt_at \in {"sleep", "errsleep"}

\* C3 (as claimed): when post-tweet is drawn before the tweet interval has
\* elapsed, the iteration posts nothing, is no failure, and goes on to the sleep step.
C3_CooldownSkipSleeps ==
    [][ (/\ pc = "perform"
         /\ action_name = "post-tweet"
         /\ HasAttr("tweet_interval")
         /\ now - last_tweet_time < self["tweet_interval"]
         /\ pc' # pc
         /\ interrupt_at' = interrupt_at)
        => (pc' = "sleep" /\ calls' = calls /\ prev' # "error")
      ]_vars

C7_SleepBetweenSelections ==
    [][ (/\ pc = "perform"
         /\ action_name \in {"reply-to-tweet", "like-tweet"}
         /\ ~QueueEmpty(state)
         /\ pc' # pc
         /\ interrupt_at' = interrupt_at)
        => pc' \in {"sleep", "errsleep"}
      ]_vars

\* C8 (as claimed): when an iteration begins with the timeline queue absent or
\* empty and the profile has a reply-to-tweet or like-tweet task, read-timeline
\* is called before the task selection.
C8_ReplenishWhenEmpty ==
    (/\ pc \in {"select", "perform"}
     /\ started_empty
     /\ \E i \in DOMAIN self["tasks"] :
            self["tasks"][i].name \in {"reply-to-tweet", "like-tweet"})
    => (Len(calls) >= 1 /\ calls[1] = "read-timeline")

\* C9 (as claimed): the queue is popped only when it is not empty; an iteration
\* that draws a timeline task has made exactly one read-timeline call if it
\* began with an empty queue and none if it began with a non-empty one.
C9_DrainReplenish ==
    [][ /\ (/\ "timeline_tweets" \in DOMAIN state
            /\ "timeline_tweets" \in DOMAIN state'
            /\ pc = "perform"
            /\ state'["timeline_tweets"] # state["timeline_tweets"])
           => Len(state["timeline_tweets"]) > 0
        /\ (pc' = "perform" /\ action_name' \in {"reply-to-tweet", "like-tweet"})
           => Cardinality({ i \in DOMAIN calls' : calls'[i] = "read-timeline" })
                = (IF started_empty' THEN 1 ELSE 0)
      ]_vars

\* C10 (as claimed): an iteration whose read-timeline call fails goes on to the
\* task selection.
C10_FailedReplenishContinues ==
    [][ (pc = "replenish" /\ raised' = "read-timeline" /\ interrupt_at' = interrupt_at)
        => pc' = "select"
      ]_vars

-----------------------------------------------------------------------------
(* Properties of the dedup sets and of the task selection *)

RepliedMessages(st) == Get(st, "echochambers_replied_messages", {})

\* C11: the set of replied room-message ids never loses an element, and
\* send-message is never invoked as a reply to a message whose id is already in
\* the set, also when that id comes back in a later room history.
C11_ReplyDedup ==
    [][ /\ RepliedMessages(state) \subseteq RepliedMessages(state')
        /\ (reply_target' # reply_target /\ reply_target' # 0 =>
                reply_target' \notin RepliedMessages(state))
      ]_vars

\* an iteration met a message it had already replied to, passed over it and
\* replied to another one
C11_Witness ==
    /\ dedup_skipped
    /\ reply_target # 0
    /\ success
    /\ Cardinality(RepliedMessages(state)) = 2

\* C12 (as claimed): the reply-to-tweet call is never made for a tweet id for
\* which an earlier reply-to-tweet call of the run has returned.
C12_NoDoubleTweetReply ==
    [][ (/\ pc = "perform"
         /\ action_name = "reply-to-tweet"
         /\ calls' # calls
         /\ calls'[Len(calls')] = "reply-to-tweet")
        => Head(state["timeline_tweets"]).id \notin replied_tweets
      ]_vars

\* C13: when some task has a positive weight, the task drawn in an iteration is
\* never one whose weight is 0 or is missing from the profile.
C13_ZeroWeightNeverSelected ==
    pc = "perform" =>
        \A i \in DOMAIN self["tasks"] :
            self["tasks"][i].name = action_name => Get(self["tasks"][i], "weight", 0) > 0

\* a draw was made from a profile that lists a weight of 0 beside positive weights
C13_Witness ==
    /\ pc = "perform"
    /\ \E i \in DOMAIN self["tasks"] :
          "weight" \in DOMAIN self["tasks"][i] /\ self["tasks"][i].weight = 0

NoPositiveWeight ==
    \/ Len(self["tasks"]) = 0
    \/ SumTo(self["task_weights"], Len(self["task_weights"])) <= 0

\* C14: with an empty task list or with all weights 0 no task is ever selected
\* and no provider action beyond the replenish's read-timeline is invoked; the
\* failed draw is handled inside the
\* loop, which sleeps and starts the next iteration, and only a
\* KeyboardInterrupt ends it.
C14_ZeroWeightsStall ==
    [][ NoPositiveWeight =>
          /\ pc' # "perform"
          /\ action_name' = "none"
          /\ \A i \in DOMAIN calls' : calls'[i] = "read-timeline"
          /\ (pc = "select" /\ pc' # pc /\ interrupt_at' = interrupt_at =>
                  pc' = "errsleep" /\ raised' = "random.choices")
          /\ (pc = "errsleep" /\ pc' # pc /\ interrupt_at' = interrupt_at =>
                  pc' = "replenish")
          /\ (pc' = "STOPPED" /\ pc # "STOPPED" => interrupt_at' # interrupt_at)
      ]_vars

\* a second draw is reached after the first one failed (no other step of such
\* a profile can raise)
C14_Witness ==
    /\ NoPositiveWeight
    /\ ~NeedsTimeline(self["tasks"])
    /\ pc = "select"
    /\ prev = "error"
    /\ interrupt_at = "none"

-----------------------------------------------------------------------------
(* Properties of the provider calls of one iteration *)

SideEffecting == {"post-tweet", "reply-to-tweet", "like-tweet", "send-message"}

ProviderActions ==
    SideEffecting \cup {"read-timeline", "get-tweet-replies", "generate-text",
                        "get-room-info", "get-room-history"}

Occurrences(list, a) == Cardinality({ i \in DOMAIN list : list[i] = a })

\* C15: within one iteration every side-effecting provider action is invoked at
\* most once, and a provider call that raised is the last provider action of
\* its iteration: the loop is in the handler's sleep, or about to start the
\* next iteration, or stopped, and nothing was invoked after the failed call.
C15_NoRetryWithinIteration ==
    /\ \A a \in SideEffecting : Occurrences(calls, a) <= 1
    /\ (raised \in ProviderActions =>
            /\ pc \in {"errsleep", "replenish", "STOPPED"}
            /\ calls # << >>
            /\ calls[Len(calls)] = raised
            /\ (raised \in SideEffecting => Occurrences(calls, raised) = 1))

\* the iteration is over after a side-effecting call that raised
C15_Witness ==
    /\ raised \in SideEffecting
    /\ pc = "errsleep"
    /\ interrupt_at = "none"

-----------------------------------------------------------------------------
(* Properties of the state updates *)

LastMessage(st) == Get(st, "echochambers_last_message", 0)

LastCall(list) == IF list = << >> THEN "none" ELSE list[Len(list)]

\* C16: last_tweet_time, echochambers_last_message and the replied set change
\* only in the step of an iteration whose provider call (post-tweet, or
\* send-message) returned: the iteration is a success, nothing was raised, and
\* the call is the last one made. A cooldown skip, an empty LLM text or a
\* raised provider error leaves all three as they were.
C16_UpdateOnSuccessOnly ==
    [][ /\ (last_tweet_time' # last_tweet_time =>
                /\ action_name = "post-tweet"
                /\ success' /\ raised' = "none"
                /\ LastCall(calls') = "post-tweet"
                /\ last_tweet_time' = now)
        /\ (LastMessage(state') # LastMessage(state) =>
                /\ action_name = "post-echochambers"
                /\ success' /\ raised' = "none"
                /\ LastCall(calls') = "send-message"
                /\ LastMessage(state') = now)
        /\ (RepliedMessages(state') # RepliedMessages(state) =>
                /\ action_name = "reply-echochambers"
                /\ success' /\ raised' = "none"
                /\ LastCall(calls') = "send-message"
                /\ RepliedMessages(state') = RepliedMessages(state) \cup {reply_target'})
      ]_vars

\* send-message raised for a reply, and the id of the message is not in the set
C16_Witness ==
    /\ pc = "errsleep"
    /\ raised = "send-message"
    /\ reply_target # 0
    /\ reply_target \notin RepliedMessages(state)

-----------------------------------------------------------------------------
(* The connections (src/src/connections) and their perform_action *)

MaxArgs == 2           \* most words that follow the action name on the command line

\* perform_action calls self.actions[action_name]["func"]
Direct == {"twitter", "openai", "anthropic"}

\* perform_action validates the arguments and calls the method named after the action
Validating == {"xai", "together", "eternalai", "solana"}

\* perform_action checks is_configured(), validates, and calls the method
Gated == {"sonic", "evm"}

Kinds == Direct \cup Validating \cup Gated \cup {"goat", "base"}

\* self.actions of TwitterConnection, OpenAIConnection and AnthropicConnection
ActionTable(conn) ==
    CASE conn = "twitter" ->
            ("get-lates-tweets" :> "get_latest_tweets") @@ ("post-tweet" :> "post_tweet")
            @@ ("read-timeline" :> "read_timeline") @@ ("like-tweet" :> "like_tweet")
      [] conn = "openai" ->
            ("generate-text" :> "generate_text") @@ ("check-model" :> "check_model")
            @@ ("set-model" :> "set_model")
      [] conn = "anthropic" ->
            ("generate-text" :> "generate_text") @@ ("check-model" :> "check_model")
            @@ ("list-models" :> "list_models")

\* the plugin tools loaded by GoatConnection.register_actions
GoatTools == {"erc20-get_token_balance", "coingecko-get_trending_coins"}

\* the names registered by each connection
Actions(conn) ==
    CASE conn \in Direct -> DOMAIN ActionTable(conn)
      [] conn \in {"xai", "together", "eternalai"} ->
            {"generate-text", "check-model", "list-models"}
      [] conn = "solana" ->
            {"transfer", "trade", "get-balance", "stake", "lend-assets", "request-faucet",
             "deploy-token", "fetch-price", "get-tps", "get-token-by-ticker",
             "get-token-by-address", "launch-pump-token"}
      [] conn \in Gated -> {"get-token-by-ticker", "get-balance", "transfer", "swap"}
      [] conn = "goat" -> GoatTools
      [] conn = "base" -> {}

\* the methods the classes define for their actions
Methods(conn) ==
    CASE conn \in {"xai", "together", "eternalai"} ->
            {"generate_text", "check_model", "list_models"}
      [] conn = "solana" ->
            {"transfer", "trade", "get_balance", "stake", "lend_assets", "request_faucet",
             "deploy_token", "fetch_price", "get_tps", "get_token_by_ticker",
             "get_token_by_address", "launch_pump_token"}
      [] conn = "sonic" -> {"get_token_by_ticker", "get_balance", "transfer", "swap"}
      [] conn = "evm" ->
            {"get_address", "get_token_by_ticker", "get_balance", "transfer", "swap"}
      [] OTHER -> {}

\* the functions of the Direct connections that have a parameter without default
Required(conn, func) ==
    CASE conn = "twitter" -> func \in {"get_latest_tweets", "post_tweet", "like_tweet"}
      [] conn = "openai" -> func \in {"generate_text", "set_model"}
      [] conn = "anthropic" -> func \in {"generate_text", "check_model"}
      [] OTHER -> FALSE

\* action_name.replace('-', '_')
RECURSIVE ReplaceDash(_)
ReplaceDash(name) ==
    IF Len(name) = 0 THEN ""
    ELSE (IF SubSeq(name, 1, 1) = "-" THEN "_" ELSE SubSeq(name, 1, 1))
         \o ReplaceDash(SubSeq(name, 2, Len(name)))

Raise(type, message) == [kind |-> "raise", type |-> type, message |-> message]

Return(value, printed) == [kind |-> "return", value |-> value, printed |-> printed]

Call(conn, func) == [conn |-> conn, func |-> func]

\* the invoked provider function returns a value or raises its own error
Behaviours == {"returns", "raises"}

Behaviour(b) ==
    IF b = "returns" THEN Return("result", "") ELSE Raise("ProviderError", "provider failure")

\* the exception class of the unknown-action error
UnknownActionError(conn) ==
    CASE conn = "openai" -> "OpenAIConnectionError"
      [] conn = "anthropic" -> "AnthropicConnectionError"
      [] conn \in {"twitter", "base"} -> "Exception"
      [] OTHER -> "KeyError"

\* faulty variant: an unregistered name is ignored and None is returned
direct_perform_action_silent(conn, action, supplied, b) ==
    IF action \in DOMAIN ActionTable(conn)
    THEN LET func == ActionTable(conn)[action]
         IN  IF Required(conn, func) /\ ~supplied
             THEN [invoked |-> << >>, outcome |-> Raise("TypeError", "missing argument")]
             ELSE [invoked |-> << Call(conn, func) >>, outcome |-> Behaviour(b)]
    ELSE [invoked |-> << >>, outcome |-> Return("None", "")]

\* TwitterConnection, OpenAIConnection, AnthropicConnection .perform_action
direct_perform_action(conn, action, supplied, b) ==
    IF action \in DOMAIN ActionTable(conn)
    THEN LET func == ActionTable(conn)[action]
         IN  IF Required(conn, func) /\ ~supplied
             THEN [invoked |-> << >>, outcome |-> Raise("TypeError", "missing argument")]
             ELSE [invoked |-> << Call(conn, func) >>, outcome |-> Behaviour(b)]
    ELSE [invoked |-> << >>,
          outcome |-> Raise(UnknownActionError(conn), "Unknown action")]

\* xAIConnection, TogetherAIConnection, EternalAIConnection, SolanaConnection
\* .perform_action; errors is the list returned by action.validate_params(kwargs)
validating_perform_action(conn, action, errors, b) ==
    IF action \notin Actions(conn)
    THEN [invoked |-> << >>, outcome |-> Raise("KeyError", "Unknown action")]
    ELSE IF errors # << >>
    THEN [invoked |-> << >>, outcome |-> Raise("ValueError", "Invalid parameters")]
    ELSE LET method_name == ReplaceDash(action)
         IN  IF method_name \notin Methods(conn)
             THEN [invoked |-> << >>, outcome |-> Raise("AttributeError", method_name)]
             ELSE [invoked |-> << Call(conn, method_name) >>, outcome |-> Behaviour(b)]

\* the exception class raised when is_configured() is false
ConnectionError(conn) == IF conn = "sonic" THEN "SonicConnectionError" ELSE "EVMConnectionError"

\* SonicConnection, EVMConnection .perform_action
gated_perform_action(conn, action, is_configured, errors, b) ==
    IF action \notin Actions(conn)
    THEN [invoked |-> << >>, outcome |-> Raise("KeyError", "Unknown action")]
    ELSE IF ~is_configured
    THEN [invoked |-> << Call(conn, "is_configured") >>,
          outcome |-> Raise(ConnectionError(conn), "not properly configured")]
    ELSE IF errors # << >>
    THEN [invoked |-> << Call(conn, "is_configured") >>,
          outcome |-> Raise("ValueError", "Invalid parameters")]
    ELSE LET method_name == ReplaceDash(action)
         IN  IF method_name \notin Methods(conn)
             THEN [invoked |-> << Call(conn, "is_configured") >>,
                   outcome |-> Raise("AttributeError", method_name)]
             ELSE [invoked |-> << Call(conn, "is_configured"), Call(conn, method_name) >>,
                   outcome |-> Behaviour(b)]

\* faulty variant: the list of validation errors is not looked at
goat_perform_action_unvalidated(action, errors, b) ==
    IF action \notin Actions("goat")
    THEN [invoked |-> << >>, outcome |-> Raise("KeyError", "Unknown action")]
    ELSE [invoked |-> << Call("goat", action) >>, outcome |-> Behaviour(b)]

\* GoatConnection.perform_action: the tool registered under the name is executed
goat_perform_action(action, errors, b) ==
    IF action \notin Actions("goat")
    THEN [invoked |-> << >>, outcome |-> Raise("KeyError", "Unknown action")]
    ELSE IF errors # << >>
    THEN [invoked |-> << >>, outcome |-> Raise("ValueError", "Invalid parameters")]
    ELSE [invoked |-> << Call("goat", action) >>, outcome |-> Behaviour(b)]

\* BaseConnection.perform_action, over the actions BaseConnection.__init__ creates
base_perform_action(action, b) ==
    IF action \in Actions("base")
    THEN [invoked |-> << Call("base", action) >>, outcome |-> Behaviour(b)]
    ELSE [invoked |-> << >>, outcome |-> Raise("Exception", "Unknown action")]

\* connection.perform_action of whichever class the connection has
perform_action(conn, action, supplied, is_configured, errors, b) ==
    CASE conn \in Direct -> direct_perform_action(conn, action, supplied, b)
      [] conn \in Validating -> validating_perform_action(conn, action, errors, b)
      [] conn \in Gated -> gated_perform_action(conn, action, is_configured, errors, b)
      [] conn = "goat" -> goat_perform_action(action, errors, b)
      [] conn = "base" -> base_perform_action(action, b)

-----------------------------------------------------------------------------
(* ConnectionManager (src/src/connection_manager.py) *)

\* faulty variant: a name that is not in the registry is served all the same
HasConnection_any(registry, conn) == TRUE

\* self.connections[connection_string] raises KeyError for a name that is not a key
HasConnection(registry, conn) == conn \in registry

\* lines 86-113: the keyword arguments built from the words after the action
\* name; "abort" when a usage error is printed and None is returned
parse_args(action, args, numeric) ==
    IF args = 0 THEN "empty"
    ELSE CASE action = "get-latest-tweets" ->
                 IF args >= 2 /\ numeric THEN "supplied" ELSE "abort"
           [] action = "post-tweet" -> "supplied"
           [] action = "like-tweet" -> IF args = 1 THEN "supplied" ELSE "abort"
           [] OTHER -> "empty"

\* lines 120-128: what each except clause prints
Printed(type) ==
    CASE type = "KeyError" -> "Unknown connection or action"
      [] type = "ValueError" -> "Invalid argument"
      [] OTHER -> "An error occurred"

find_and_perform_action(registry, conn, action, args, numeric, is_configured, b) ==
    IF ~HasConnection(registry, conn) \/ action \notin Actions(conn)
    THEN [invoked |-> << >>, outcome |-> Return("None", Printed("KeyError"))]
    ELSE LET kwargs == parse_args(action, args, numeric)
         IN  IF kwargs = "abort"
             THEN [invoked |-> << >>, outcome |-> Return("None", "Usage")]
             ELSE LET res == perform_action(conn, action, kwargs = "supplied",
                                            is_configured, << >>, b)
                  IN  IF res.outcome.kind = "raise"
                      THEN [invoked |-> res.invoked,
                            outcome |-> Return("None", Printed(res.outcome.type))]
                      ELSE res

-----------------------------------------------------------------------------
(* The operations on the connections and on the manager *)

\* names given to the manager: the registered ones and one it does not hold
ManagerNames == Registry \cup {"sonic"}

\* action names that no connection registers
Unregistered == {"get-latest-tweets", "reply-to-tweet"}

\* results of action.validate_params(kwargs)
ErrorLists == { << >>, << "Missing required parameter" >> }

\* the sets of connections whose credentials the environment can hold
Environments == { {}, Gated, Kinds \ Gated, Kinds }

Req(op, conn, action, errors, supplied) ==
    [op |-> op, conn |-> conn, action |-> action, errors |-> errors,
     supplied |-> supplied, configured |-> conn \in configured]

Answer(req, res) ==
    /\ request' = req
    /\ invoked' = res.invoked
    /\ outcome' = res.outcome

\* the credentials in .env change between two operations
SetEnv ==
    /\ configured' \in Environments \ {configured}
    /\ UNCHANGED <<connections, request, invoked, outcome>>
    /\ UNCHANGED outside_dispatch

DirectPerformAction ==
    /\ \E conn \in Direct : \E action \in Actions(conn) \cup Unregistered,
          supplied \in BOOLEAN, b \in Behaviours :
          Answer(Req("perform_action", conn, action, << >>, supplied),
                 direct_perform_action(conn, action, supplied, b))
    /\ UNCHANGED <<connections, configured>>
    /\ UNCHANGED outside_dispatch

ValidatingPerformAction ==
    /\ \E conn \in Validating : \E action \in Actions(conn) \cup Unregistered,
          errors \in ErrorLists, b \in Behaviours :
          Answer(Req("perform_action", conn, action, errors, errors = << >>),
                 validating_perform_action(conn, action, errors, b))
    /\ UNCHANGED <<connections, configured>>
    /\ UNCHANGED outside_dispatch

GatedPerformAction ==
    /\ \E conn \in Gated : \E action \in Actions(conn) \cup Unregistered,
          errors \in ErrorLists, b \in Behaviours :
          Answer(Req("perform_action", conn, action, errors, errors = << >>),
                 gated_perform_action(conn, action, conn \in configured, errors, b))
    /\ UNCHANGED <<connections, configured>>
    /\ UNCHANGED outside_dispatch

GoatPerformAction ==
    /\ \E action \in Actions("goat") \cup Unregistered,
          errors \in ErrorLists, b \in Behaviours :
          Answer(Req("perform_action", "goat", action, errors, errors = << >>),
                 goat_perform_action(action, errors, b))
    /\ UNCHANGED <<connections, configured>>
    /\ UNCHANGED outside_dispatch

BasePerformAction ==
    /\ \E action \in Actions("base") \cup Unregistered, b \in Behaviours :
          Answer(Req("perform_action", "base", action, << >>, TRUE),
                 base_perform_action(action, b))
    /\ UNCHANGED <<connections, configured>>
    /\ UNCHANGED outside_dispatch

\* lines 13-27
ConfigureConnection ==
    /\ \E conn \in ManagerNames :
          /\ request' = Req("configure_connection", conn, "none", << >>, TRUE)
          /\ IF HasConnection(connections, conn)
             THEN \/ /\ invoked' = << Call(conn, "configure") >>
                     /\ outcome' = Return("None", "An error occurred")
                     /\ UNCHANGED configured
                  \/ \E stored \in BOOLEAN :
                       /\ configured' = IF stored THEN configured \cup {conn} ELSE configured
                       /\ invoked' = << Call(conn, "configure"), Call(conn, "is_configured") >>
                       /\ outcome' = Return("None", IF conn \in configured'
                                                    THEN "SUCCESSFULLY CONFIGURED"
                                                    ELSE "ERROR CONFIGURING")
             ELSE /\ invoked' = << >>
                  /\ outcome' = Return("None", "Unknown connection")
                  /\ UNCHANGED configured
    /\ UNCHANGED connections
    /\ UNCHANGED outside_dispatch

\* lines 29-47
CheckConnection ==
    /\ \E conn \in ManagerNames :
          /\ request' = Req("check_connection", conn, "none", << >>, TRUE)
          /\ IF HasConnection(connections, conn)
             THEN /\ invoked' = << Call(conn, "is_configured") >>
                  /\ \/ outcome' = Return(IF conn \in configured THEN "True" ELSE "False", "")
                     \/ outcome' = Return("False", "An error occurred")
             ELSE /\ invoked' = << >>
                  /\ outcome' = Return("False", "Unknown connection")
    /\ UNCHANGED <<connections, configured>>
    /\ UNCHANGED outside_dispatch

\* lines 49-55
ListConnections ==
    /\ request' = Req("list_connections", "none", "none", << >>, TRUE)
    /\ invoked' = << Call("twitter", "is_configured"), Call("openai", "is_configured") >>
    /\ outcome' = Return("None", "AVAILABLE CONNECTIONS")
    /\ UNCHANGED <<connections, configured>>
    /\ UNCHANGED outside_dispatch

\* lines 57-75
ListActions ==
    /\ \E conn \in ManagerNames :
          /\ request' = Req("list_actions", conn, "none", << >>, TRUE)
          /\ IF HasConnection(connections, conn)
             THEN /\ invoked' = << Call(conn, "is_configured") >>
                  /\ \/ outcome' = Return("None", "AVAILABLE ACTIONS")
                     \/ outcome' = Return("None", "An error occurred")
             ELSE /\ invoked' = << >>
                  /\ outcome' = Return("None", "Unknown connection")
    /\ UNCHANGED <<connections, configured>>
    /\ UNCHANGED outside_dispatch

\* lines 77-129
FindAndPerformAction ==
    /\ \E conn \in ManagerNames,
          action \in Actions("twitter") \cup Actions("openai") \cup Unregistered,
          args \in 0..MaxArgs, numeric \in BOOLEAN, b \in Behaviours :
          Answer(Req("find_and_perform_action", conn, action, << >>, args > 0),
                 find_and_perform_action(connections, conn, action, args, numeric,
                                         conn \in configured, b))
    /\ UNCHANGED <<connections, configured>>
    /\ UNCHANGED outside_dispatch

-----------------------------------------------------------------------------
(* The call paths into the dispatch: the loop, the CLI and the server *)

\* the methods class ConnectionManager defines
ManagerMethods ==
    {"configure_connection", "check_connection", "list_connections", "list_actions",
     "find_and_perform_action"}

\* self.connection_manager.perform_action(...): the attribute lookup on the manager
manager_perform_action(conn, action) ==
    IF "perform_action" \in ManagerMethods
    THEN Return("result", "")
    ELSE Raise("AttributeError", "perform_action")

\* def perform_action(self, connection: str, action: str, **kwargs)
AgentPerformActionParams == {"connection", "action"}

\* ZerePyAgent.perform_action called with the given keyword arguments
agent_perform_action(keywords, conn, action) ==
    IF ~(AgentPerformActionParams \subseteq keywords)
    THEN Raise("TypeError", "missing required positional arguments")
    ELSE manager_perform_action(conn, action)

\* the connections and actions the loop of agent.py dispatches to
LoopDispatches ==
    { <<"twitter", "read-timeline">>, <<"twitter", "post-tweet">>,
      <<"twitter", "reply-to-tweet">>, <<"twitter", "like-tweet">>,
      <<"openai", "generate-text">>, <<"echochambers", "send-message">> }

\* agent.py lines 98-106 and the calls of loop(): connection_name, action_name, params
SchedulerPerformAction ==
    /\ \E d \in LoopDispatches :
          Answer(Req("loop_perform_action", d[1], d[2], << >>, TRUE),
                 [invoked |-> << >>, outcome |-> manager_perform_action(d[1], d[2])])
    /\ UNCHANGED <<connections, configured>>
    /\ UNCHANGED outside_dispatch

\* cli.py lines 340-367 with an agent loaded: the check_connection gate, then
\* agent.perform_action(action_string=, connection_string=, input_list=)
AgentAction ==
    /\ \E d \in LoopDispatches :
          /\ request' = Req("agent_action", d[1], d[2], << >>, TRUE)
          /\ IF HasConnection(connections, d[1]) /\ d[1] \in configured
             THEN /\ invoked' = << Call(d[1], "is_configured") >>
                  /\ outcome' = agent_perform_action(
                                    {"action_string", "connection_string", "input_list"},
                                    d[1], d[2])
             ELSE /\ invoked' = IF HasConnection(connections, d[1])
                                THEN << Call(d[1], "is_configured") >> ELSE << >>
                  /\ outcome' = Return("None", "is not configured")
    /\ UNCHANGED <<connections, configured>>
    /\ UNCHANGED outside_dispatch

\* server/app.py lines 119-133: agent.perform_action(connection=, action=, params=)
ServerAgentAction ==
    /\ \E d \in LoopDispatches :
          Answer(Req("server_agent_action", d[1], d[2], << >>, TRUE),
                 [invoked |-> << >>,
                  outcome |-> agent_perform_action({"connection", "action", "params"},
                                                   d[1], d[2])])
    /\ UNCHANGED <<connections, configured>>
    /\ UNCHANGED outside_dispatch

-----------------------------------------------------------------------------
(* is_configured of the connections *)

\* is_configured tests os.path.exists('.env') before anything else
FileGated == {"twitter", "openai", "anthropic"}

\* is_configured lists the provider's models with the stored key
KeyChecked == {"xai", "together", "eternalai"}

\* answers of the provider (or of the web3 node) to the validation call
ProviderStates == {"ok", "raises", "down"}

\* faulty variant: the error of the validation call leaves is_configured
except_Exception_reraised(verbose) == Raise("ProviderError", "provider failure")

\* except Exception as e: report when verbose, return False
except_Exception(verbose) ==
    Return("False", IF verbose THEN "validation failed" ELSE "")

is_configured(conn, verbose, env_file, credential, provider) ==
    CASE conn \in FileGated ->
            IF ~env_file THEN Return("False", "")
            ELSE IF ~credential THEN Return("False", "")
            ELSE IF provider = "raises" THEN except_Exception(verbose)
            ELSE Return("True", "")
      [] conn \in KeyChecked ->
            IF ~credential THEN Return("False", "")
            ELSE IF provider = "raises" THEN except_Exception(verbose)
            ELSE Return("True", "")
      [] conn \in Gated ->
            IF ~credential
            THEN Return("False", IF verbose THEN "Missing private key" ELSE "")
            ELSE IF provider = "raises" THEN except_Exception(verbose)
            ELSE IF provider = "down"
            THEN Return("False", IF verbose THEN "Not connected" ELSE "")
            ELSE Return("True", "")
      [] conn = "solana" ->
            IF ~credential THEN except_Exception(verbose) ELSE Return("True", "")
      [] conn = "goat" -> Return("True", "")

IsConfigured ==
    /\ \E conn \in Kinds \ {"base"}, verbose \in BOOLEAN, env_file \in BOOLEAN,
          provider \in ProviderStates :
          Answer([op |-> "is_configured", conn |-> conn, action |-> provider,
                  errors |-> << >>, supplied |-> env_file,
                  configured |-> conn \in configured],
                 [invoked |-> << >>,
                  outcome |-> is_configured(conn, verbose, env_file,
                                            conn \in configured, provider)])
    /\ UNCHANGED <<connections, configured>>
    /\ UNCHANGED outside_dispatch

InitDispatch ==
    /\ LoopInit(<< >>, [openai |-> [model |-> "gpt"]], 900)
    /\ ManagerInit
    /\ configured \in Environments
    /\ CredIdle
    /\ ServerIdle
    /\ Web3Idle

NextDispatch ==
    \/ SetEnv
    \/ DirectPerformAction
    \/ ValidatingPerformAction
    \/ GatedPerformAction
    \/ GoatPerformAction
    \/ BasePerformAction
    \/ ConfigureConnection
    \/ CheckConnection
    \/ ListConnections
    \/ ListActions
    \/ FindAndPerformAction
    \/ SchedulerPerformAction
    \/ AgentAction
    \/ ServerAgentAction
    \/ IsConfigured

SpecDispatch == InitDispatch /\ [][NextDispatch]_vars

-----------------------------------------------------------------------------
(* Properties of the dispatch *)

\* the provider functions among the invoked methods
BoundCalls(list) == SelectSeq(list, LAMBDA c : c.func \notin {"configure", "is_configured"})

\* the behaviour an action name stands for in its connection
Bound(conn, action) ==
    CASE conn \in Direct -> ActionTable(conn)[action]
      [] conn \in {"goat", "base"} -> action
      [] OTHER -> ReplaceDash(action)

\* C17 (as claimed): a dispatch, through Connection.perform_action or through
\* ConnectionManager.find_and_perform_action, invokes the provider function only
\* when the connection was configured at the time of the dispatch.
C17_DispatchGate ==
    (/\ request.op \in {"perform_action", "find_and_perform_action"}
     /\ BoundCalls(invoked) # << >>)
    => request.configured

\* C18: when perform_action has validated the arguments and the list of errors
\* is not empty, it raises the validation error and no provider function is
\* invoked, neither once nor again.
C18_ValidationPrecedesInvocation ==
    (/\ request.op = "perform_action"
     /\ request.conn \in Validating \cup Gated \cup {"goat"}
     /\ request.action \in Actions(request.conn)
     /\ (request.conn \in Gated => request.configured)
     /\ request.errors # << >>)
    => /\ BoundCalls(invoked) = << >>
       /\ outcome = Raise("ValueError", "Invalid parameters")

\* a configured sonic connection rejected invalid arguments
C18_Witness ==
    /\ request.op = "perform_action"
    /\ request.conn = "sonic"
    /\ request.configured
    /\ request.errors # << >>
    /\ outcome = Raise("ValueError", "Invalid parameters")

\* C19: perform_action with a name the connection has not registered raises the
\* unknown-action error of its class and invokes nothing; with a registered
\* name it invokes no function but the one bound to the name, and it invokes
\* that one whenever the arguments and the configuration let the call through.
C19_UnknownAction ==
    request.op = "perform_action" =>
        IF request.action \notin Actions(request.conn)
        THEN /\ invoked = << >>
             /\ outcome = Raise(UnknownActionError(request.conn), "Unknown action")
        ELSE /\ BoundCalls(invoked) \in
                    { << >>, << Call(request.conn, Bound(request.conn, request.action)) >> }
             /\ ~(outcome.kind = "raise" /\ outcome.type = "AttributeError")
             /\ (/\ request.supplied
                 /\ request.errors = << >>
                 /\ (request.conn \in Gated => request.configured)
                 => BoundCalls(invoked) # << >>)

\* the correctly spelled get-latest-tweets is not a name TwitterConnection registers
C19_Witness ==
    /\ request.op = "perform_action"
    /\ request.conn = "twitter"
    /\ request.action = "get-latest-tweets"
    /\ outcome = Raise("Exception", "Unknown action")

NamedManagerOps ==
    {"configure_connection", "check_connection", "list_actions", "find_and_perform_action"}

\* C20: the registry never changes, and an operation of the manager that is
\* given a name outside the registry invokes no method of any connection and
\* returns None (False for check_connection) after reporting the unknown name.
C20_UnknownConnection ==
    [][ /\ connections' = connections
        /\ (request'.op \in NamedManagerOps /\ request'.conn \notin connections =>
                /\ invoked' = << >>
                /\ outcome'.kind = "return"
                /\ outcome'.value = (IF request'.op = "check_connection" THEN "False" ELSE "None")
                /\ outcome'.printed \in {"Unknown connection", "Unknown connection or action"})
      ]_vars

\* an action was asked of a connection the manager does not hold
C20_Witness ==
    /\ request.op = "find_and_perform_action"
    /\ request.conn = "sonic"
    /\ request.action \in Actions("twitter")
    /\ outcome = Return("None", "Unknown connection or action")

-----------------------------------------------------------------------------
(* Properties of the call paths *)

\* C21 (as claimed): a one-shot dispatch, from the CLI or from the server, ends
\* with the outcome the loop's dispatch has for the same connection and action
\* in the same connection state.
C21_SameOutcomeOnBothPaths ==
    request.op \in {"agent_action", "server_agent_action"} =>
        outcome = manager_perform_action(request.conn, request.action)

-----------------------------------------------------------------------------
(* Properties of is_configured and configure *)

\* C22: is_configured returns True or False and never raises; it returns False
\* whenever the .env file (where it is looked for), the credential or the
\* provider's answer is missing, with and without verbose.
C22_IsConfiguredNeverRaises ==
    request.op = "is_configured" =>
        /\ outcome.kind = "return"
        /\ outcome.value \in {"True", "False"}
        /\ (request.conn # "goat" /\ ~request.configured => outcome.value = "False")
        /\ (request.conn \in FileGated /\ ~request.supplied => outcome.value = "False")
        /\ (request.conn \notin {"goat", "solana"} /\ request.action \in {"raises"}
                => outcome.value = "False")
        /\ (request.conn \in Gated /\ request.action = "down" => outcome.value = "False")

\* the provider's validation call failed on stored credentials and False came back
C22_Witness ==
    /\ request.op = "is_configured"
    /\ request.conn = "twitter"
    /\ request.configured
    /\ request.supplied
    /\ request.action = "raises"
    /\ outcome.kind = "return"
    /\ outcome.value = "False"

-----------------------------------------------------------------------------
(* The stored credentials: .env, os.environ and the cached clients *)

MaxKey == 2            \* credential values 1..MaxKey; 0 stands for no value

\* one connection of each family that stores a credential
CredConns == {"twitter", "openai", "xai", "sonic"}

\* configure() writes .env only once the provider has answered
WritesAfterSetup == {"twitter"}

\* load_dotenv(): a variable already in os.environ keeps its value
load_dotenv(file_exists, file_value, env_value) ==
    IF env_value = 0 /\ file_exists THEN file_value ELSE env_value

\* os.environ after the load_dotenv() call of is_configured
loaded(conn) ==
    IF conn \in FileGated /\ ~env_exists THEN environ
    ELSE load_dotenv(env_exists, dotenv, environ)

CredCall(op, used, result, prompted, reply) ==
    [op |-> op, used |-> used, result |-> result, prompted |-> prompted,
     reply |-> reply, before |-> dotenv, configured |-> FALSE,
     after_rotation |-> cred_call.op = "rotate"]

\* the credentials in .env are replaced from outside the process
Rotate ==
    /\ env_exists
    /\ dotenv # 0
    /\ \E key \in 1..MaxKey : key # dotenv /\ dotenv' = key
    /\ cred_call' = [op |-> "rotate"]
    /\ UNCHANGED <<cred_conn, env_exists, environ, client>>
    /\ UNCHANGED outside_credentials

CredIsConfigured ==
    /\ \E verbose \in BOOLEAN, provider \in ProviderStates :
          LET res == is_configured(cred_conn, verbose, env_exists,
                                   loaded(cred_conn) # 0, provider)
              read == ~(cred_conn \in FileGated /\ ~env_exists)
          IN  /\ environ' = loaded(cred_conn)
              /\ cred_call' = CredCall("is_configured",
                                       IF read THEN loaded(cred_conn) ELSE 0,
                                       res.value, FALSE, "")
    /\ UNCHANGED <<cred_conn, env_exists, dotenv, client>>
    /\ UNCHANGED outside_credentials

\* TwitterConnection.read_timeline, OpenAIConnection.generate_text,
\* XAIConnection.generate_text, SonicConnection.perform_action("get-balance")
CredPerformAction ==
    /\ \E provider \in ProviderStates :
          CASE cred_conn = "twitter" ->
                  /\ environ' = load_dotenv(env_exists, dotenv, environ)
                  /\ cred_call' = CredCall("perform_action", environ',
                        IF environ' = 0 THEN "ValueError" ELSE provider, FALSE, "")
                  /\ UNCHANGED client
            [] cred_conn = "openai" ->
                  /\ cred_call' = CredCall("perform_action", environ,
                        IF environ = 0 THEN "OpenAIAPIError" ELSE provider, FALSE, "")
                  /\ UNCHANGED <<environ, client>>
            [] cred_conn = "xai" ->
                  /\ client' = IF client = 0 THEN environ ELSE client
                  /\ cred_call' = CredCall("perform_action", client',
                        IF client' = 0 THEN "xAIAPIError" ELSE provider, FALSE, "")
                  /\ UNCHANGED environ
            [] cred_conn = "sonic" ->
                  /\ environ' = load_dotenv(env_exists, dotenv, environ)
                  /\ cred_call' = CredCall("perform_action", environ',
                        IF is_configured("sonic", TRUE, env_exists, environ' # 0,
                                         provider).value = "True"
                        THEN provider ELSE "SonicConnectionError", FALSE, "")
                  /\ UNCHANGED client
    /\ UNCHANGED <<cred_conn, env_exists, dotenv>>
    /\ UNCHANGED outside_credentials

\* configure(): the operator answers the reconfigure question with reply and
\* types key; provider answers is_configured, setup answers the calls made
\* while the new credential is set up
Configure ==
    /\ \E reply \in {"y", "n"}, key \in 1..MaxKey, provider \in ProviderStates,
          setup \in ProviderStates :
          LET already == is_configured(cred_conn, FALSE, env_exists,
                                       loaded(cred_conn) # 0, provider).value = "True"
              writes == /\ already => reply = "y"
                        /\ cred_conn \in WritesAfterSetup => setup = "ok"
          IN  /\ environ' = loaded(cred_conn)
              /\ IF writes
                 THEN env_exists' = TRUE /\ dotenv' = key
                 ELSE UNCHANGED <<env_exists, dotenv>>
              /\ cred_call' = [CredCall("configure", 0,
                                        IF already /\ reply # "y" THEN "declined"
                                        ELSE IF setup = "ok" THEN "saved" ELSE "failed",
                                        already, IF already THEN reply ELSE "")
                               EXCEPT !.configured = already]
    /\ UNCHANGED <<cred_conn, client>>
    /\ UNCHANGED outside_credentials

InitCredentials ==
    /\ LoopInit(<< >>, [openai |-> [model |-> "gpt"]], 900)
    /\ ManagerInit
    /\ configured = {}
    /\ ServerIdle
    /\ Web3Idle
    /\ cred_conn \in CredConns
    /\ env_exists \in BOOLEAN
    /\ dotenv \in (IF env_exists THEN 0..MaxKey ELSE {0})
    /\ environ = 0
    /\ client = 0
    /\ cred_call = NoCredCall

NextCredentials ==
    \/ Rotate
    \/ CredIsConfigured
    \/ CredPerformAction
    \/ Configure

SpecCredentials == InitCredentials /\ [][NextCredentials]_vars

-----------------------------------------------------------------------------
(* Properties of the stored credentials *)

\* C23: configure() replaces a credential that is already stored only after the
\* operator was asked and answered y; when the connection is already configured
\* and the operator declines, the stored credential is unchanged.
C23_PromptBeforeOverwrite ==
    cred_call.op = "configure" =>
        /\ (cred_call.before # 0 /\ dotenv # cred_call.before
                => cred_call.prompted /\ cred_call.reply = "y")
        /\ (cred_call.configured /\ cred_call.reply # "y"
                => dotenv = cred_call.before)

\* C24: the first is_configured or perform_action call after the stored
\* credential was replaced from outside uses the new value.
C24_RotationTakesEffect ==
    /\ cred_call.op \in {"is_configured", "perform_action"}
    /\ cred_call.after_rotation
    /\ cred_call.used # 0
    => cred_call.used = dotenv

-----------------------------------------------------------------------------
(* ServerState: start_agent_loop, stop_agent_loop and the /agent routes *)
(* (src/src/server/app.py). The coroutines and the route handlers run on *)
(* one event loop: while a coroutine is inside the synchronous call       *)
(* agent.loop() nothing else runs.                                        *)

MaxTasks == 3          \* most start requests (invocations of start_agent_loop)

\* positions of an invocation that has begun and has not ended
Live == {"loop", "sleep"}

\* the event loop is not inside a synchronous agent.loop() call
EventLoopFree == \A t \in DOMAIN task : task[t] # "loop"

\* if self.agent_running: raise ValueError("Agent already running")
AlreadyRunning == agent_running

\* load-agent: cli.agent is set
LoadAgent ==
    /\ EventLoopFree
    /\ ~agent_loaded
    /\ agent_loaded' = TRUE
    /\ UNCHANGED <<agent_running, task, began_while_live, stop_seen>>
    /\ UNCHANGED outside_server

\* POST /agent/start: the coroutine is queued as a background task and the
\* request is answered with success
StartAgent ==
    /\ EventLoopFree
    /\ agent_loaded
    /\ Len(task) < MaxTasks
    /\ task' = Append(task, "queued")
    /\ began_while_live' = Append(began_while_live, FALSE)
    /\ stop_seen' = Append(stop_seen, FALSE)
    /\ UNCHANGED <<agent_loaded, agent_running>>
    /\ UNCHANGED outside_server

\* start_agent_loop up to its first call of agent.loop()
BeginTask ==
    \E t \in DOMAIN task :
        /\ EventLoopFree
        /\ task[t] = "queued"
        /\ began_while_live' =
              [began_while_live EXCEPT ![t] = \E u \in DOMAIN task : task[u] \in Live]
        /\ IF ~agent_loaded
           THEN /\ task' = [task EXCEPT ![t] = "No agent loaded"]
                /\ UNCHANGED agent_running
           ELSE IF AlreadyRunning
           THEN /\ task' = [task EXCEPT ![t] = "Agent already running"]
                /\ UNCHANGED agent_running
           ELSE /\ agent_running' = TRUE
                /\ task' = [task EXCEPT ![t] = "loop"]
        /\ UNCHANGED <<agent_loaded, stop_seen>>
        /\ UNCHANGED outside_server

\* agent.loop() returns (it does after KeyboardInterrupt); the coroutine
\* reaches await asyncio.sleep(loop_delay)
LoopReturns ==
    \E t \in DOMAIN task :
        /\ task[t] = "loop"
        /\ task' = [task EXCEPT ![t] = "sleep"]
        /\ UNCHANGED <<agent_loaded, agent_running, began_while_live, stop_seen>>
        /\ UNCHANGED outside_server

\* agent.loop() raises: except Exception clears the flag and re-raises
LoopRaises ==
    \E t \in DOMAIN task :
        /\ task[t] = "loop"
        /\ agent_running' = FALSE
        /\ task' = [task EXCEPT ![t] = "failed"]
        /\ UNCHANGED <<agent_loaded, began_while_live, stop_seen>>
        /\ UNCHANGED outside_server

\* asyncio.sleep is over: while self.agent_running
WakeTask ==
    \E t \in DOMAIN task :
        /\ EventLoopFree
        /\ task[t] = "sleep"
        /\ task' = [task EXCEPT ![t] = IF agent_running THEN "loop" ELSE "done"]
        /\ UNCHANGED <<agent_loaded, agent_running, began_while_live, stop_seen>>
        /\ UNCHANGED outside_server

\* POST /agent/stop: stop_agent_loop; _agent_task is None, nothing is cancelled
StopAgent ==
    /\ EventLoopFree
    /\ agent_running' = FALSE
    /\ stop_seen' = [t \in DOMAIN task |-> stop_seen[t] \/ task[t] \in Live]
    /\ UNCHANGED <<agent_loaded, task, began_while_live>>
    /\ UNCHANGED outside_server

InitServer ==
    /\ LoopInit(<< >>, [openai |-> [model |-> "gpt"]], 900)
    /\ ManagerInit
    /\ configured = {}
    /\ CredIdle
    /\ ServerIdle
    /\ Web3Idle

NextServer ==
    \/ LoadAgent
    \/ StartAgent
    \/ BeginTask
    \/ LoopReturns
    \/ LoopRaises
    \/ WakeTask
    \/ StopAgent

SpecServer == InitServer /\ [][NextServer]_vars

\* asyncio runs every queued background task and ends every sleep; nothing
\* makes agent.loop() return
SpecServerFair ==
    /\ SpecServer
    /\ \A t \in 1..MaxTasks :
          /\ WF_vars(t \in DOMAIN task /\ task[t] = "queued" /\ BeginTask
                         /\ task'[t] # "queued")
          /\ SF_vars(t \in DOMAIN task /\ task[t] = "sleep" /\ WakeTask
                         /\ task'[t] # "sleep")

-----------------------------------------------------------------------------
(* Properties of the server *)

\* C25: at most one invocation of the agent loop is executing at any time, and
\* a start request made while an invocation has not ended is rejected with
\* 'Agent already running'.
C25_NoConcurrentLoops ==
    /\ Cardinality({t \in DOMAIN task : task[t] = "loop"}) <= 1
    /\ \A t \in DOMAIN task :
          began_while_live[t] => task[t] = "Agent already running"

\* C26: once stop_agent_loop was called while an invocation was running, that
\* invocation eventually ends and starts no further iteration.
C26_StopObserved ==
    \A t \in 1..MaxTasks :
        (t \in DOMAIN task /\ stop_seen[t]) ~> [](t \in DOMAIN task /\ task[t] \notin Live)

-----------------------------------------------------------------------------
(* Properties of the scheduler loop: start-up, progress, success flag *)

\* C27: until the countdown is over nothing has been replenished, selected or
\* invoked; KeyboardInterrupt during the countdown ends loop() for good, and
\* no iteration has been executed.
C27_StartupCountdown ==
    [][ /\ (pc' \in {"start", "countdown", "ABORTED"} =>
                /\ calls' = << >>
                /\ action_name' = "none"
                /\ DOMAIN state' = {}
                /\ prev' = "none"
                /\ ~success')
        /\ (pc = "countdown" /\ interrupt_at' # interrupt_at => pc' = "ABORTED")
        /\ (pc = "ABORTED" => pc' = "ABORTED") ]_vars

\* the interrupt came during the countdown and loop() has ended
C27_Witness ==
    /\ pc = "ABORTED"
    /\ interrupt_at = "countdown"
    /\ calls = << >>
    /\ prev = "none"

\* the tasks the twitter configuration serves
TwitterTasks == {"post-tweet", "reply-to-tweet", "like-tweet"}

TaskNames == TwitterTasks \cup {"post-echochambers", "reply-echochambers", "tweet-scan"}

Positive(tasks, n) ==
    \E i \in DOMAIN tasks :
        tasks[i].name = n /\ "weight" \in DOMAIN tasks[i] /\ tasks[i].weight > 0

\* a profile with a twitter task of positive weight and its configuration block
InitProgress ==
    /\ \E tasks \in { t \in TaskLists : \E n \in TwitterTasks : Positive(t, n) },
          config \in { c \in Configs : "twitter" \in DOMAIN c },
          loop_delay \in LoopDelays :
          LoopInit(tasks, config, loop_delay)
    /\ ManagerInit
    /\ configured = {}
    /\ CredIdle
    /\ ServerIdle
    /\ Web3Idle

\* loop() without KeyboardInterrupt
NextProgress ==
    \/ StartLoop
    \/ Countdown
    \/ Replenish
    \/ Select
    \/ PostTweet
    \/ ReplyToTweet
    \/ LikeTweet
    \/ PostEchochambers
    \/ OtherTask
    \/ WakeUp
    \/ Tick

\* the interpreter keeps executing loop(): a step that can be taken is taken
SpecProgress == InitProgress /\ [][NextProgress]_vars /\ WF_vars(NextProgress)

\* no provider call has failed, a read-timeline call has left a non-empty queue
\* of tweets of other authors, and the LLM has returned a text
ProvidersSucceed ==
    /\ raised \notin ProviderActions
    /\ ("timeline_tweets" \in DOMAIN state =>
            \A i \in DOMAIN state["timeline_tweets"] :
                state["timeline_tweets"][i].id # 0 /\ ~state["timeline_tweets"][i].own)
    /\ ~(pc = "select" /\ Occurrences(calls, "read-timeline") > 0 /\ QueueEmpty(state))
    /\ ~(pc = "sleep" /\ LastCall(calls) = "generate-text")

\* C29: with a twitter task of positive weight and its configuration, providers
\* that always succeed, every task of positive weight drawn again and again and
\* no cancellation, some iteration reaches the sleep step with success = true.
C29_Progress ==
    ( /\ []ProvidersSucceed
      /\ \A n \in TaskNames :
            []<>(~Positive(self["tasks"], n) \/ (pc = "perform" /\ action_name = n)) )
    => <>(pc = "sleep" /\ success)

\* the side-effecting provider actions invoked in this iteration
SideEffects == { i \in DOMAIN calls : calls[i] \in SideEffecting }

\* C30: at the sleep step success is true exactly when one side-effecting
\* provider action was invoked in this iteration and returned; an iteration
\* whose action raised sleeps with success false; the flag is false from the
\* start of an iteration until its task has been performed.
C30_SuccessFlag ==
    /\ (pc = "sleep" => /\ raised = "none"
                        /\ (success <=> Cardinality(SideEffects) = 1))
    /\ (pc = "errsleep" => /\ ~success
                           /\ (raised \in SideEffecting => Cardinality(SideEffects) = 1)
                           /\ (raised \notin SideEffecting => SideEffects = {}))
    /\ (pc \in {"select", "perform"} => ~success)

\* an iteration sleeps after its like-tweet call has returned
C30_Witness ==
    /\ pc = "sleep"
    /\ success
    /\ calls # << >>
    /\ LastCall(calls) = "like-tweet"
    /\ Cardinality(SideEffects) = 1

-----------------------------------------------------------------------------
(* Properties of the timeline queue *)

\* the timeline queue of the Agent State st, empty when the key is absent
Queue(st) == IF "timeline_tweets" \in DOMAIN st THEN st["timeline_tweets"] ELSE << >>

StartsWithSeq(list, head) ==
    Len(head) <= Len(list) /\ SubSeq(list, 1, Len(head)) = head

\* reply-to-tweet or like-tweet runs on a non-empty queue and no interrupt arrives
ConsumingStep ==
    /\ pc = "perform"
    /\ action_name \in {"reply-to-tweet", "like-tweet"}
    /\ ~QueueEmpty(state)
    /\ pc' # pc
    /\ interrupt_at' = interrupt_at

\* C31: reply-to-tweet and like-tweet remove the item at the front; what
\* was pending keeps its order at the front of the queue, and the replies
\* fetched for an own tweet come behind it; like-tweet adds nothing.
C31_FifoConsumption ==
    [][ ConsumingStep =>
            /\ StartsWithSeq(Queue(state'), Tail(Queue(state)))
            /\ (action_name = "like-tweet" => Queue(state') = Tail(Queue(state)))
            /\ (Queue(state') # Tail(Queue(state)) =>
                    Head(Queue(state)).own /\ LastCall(calls') = "get-tweet-replies")
            /\ replied_tweets' \subseteq replied_tweets \cup {Head(Queue(state)).id}
      ]_vars

\* an own tweet was popped while an item was pending, and two replies followed it
C31_Witness ==
    /\ pc = "replenish"
    /\ prev = "continue"
    /\ LastCall(calls) = "get-tweet-replies"
    /\ Len(Queue(state)) = MaxQueue

\* C32: the item is out of the queue whatever becomes of the attempt, also
\* when the LLM call or the provider action raises; outside the refill of an
\* empty queue and the replies of an own tweet nothing enters the queue.
C32_AtMostOnceConsumption ==
    [][ /\ (ConsumingStep =>
                /\ Len(Queue(state')) >= Len(Queue(state)) - 1
                /\ (raised' # "none" \/ LastCall(calls') # "get-tweet-replies"
                        => Queue(state') = Tail(Queue(state))))
        /\ (pc \notin {"perform", "replenish"} => Queue(state') = Queue(state))
        /\ (pc = "replenish" /\ ~QueueEmpty(state) => Queue(state') = Queue(state))
        /\ (pc = "perform" /\ action_name \notin {"reply-to-tweet", "like-tweet"}
                => Queue(state') = Queue(state))
      ]_vars

\* the like-tweet call for the only item of the batch failed and the queue is empty
C32_Witness ==
    /\ pc = "errsleep"
    /\ raised = "like-tweet"
    /\ calls = << "read-timeline", "like-tweet" >>
    /\ "timeline_tweets" \in DOMAIN state
    /\ Queue(state) = << >>

-----------------------------------------------------------------------------
(* Properties of the configuration attributes and of the cooldowns *)

\* the attributes the branch of a task reads
AttrsRead(n) ==
    CASE n = "post-tweet" -> {"tweet_interval"}
      [] n = "reply-to-tweet" -> {"username", "own_tweet_replies_count"}
      [] n = "post-echochambers" -> {"echochambers_message_interval"}
      [] OTHER -> {}

\* C33: when a task has been selected, every attribute its branch reads is set,
\* and no iteration ends on a missing attribute.
C33_AttributesInitialised ==
    /\ (pc = "perform" => \A a \in AttrsRead(action_name) : HasAttr(a))
    /\ raised # "AttributeError"

\* loop() has returned and is called again on the same agent instance: self and
\* the Agent State are kept, the locals of loop() are new (line 126 sets
\* last_tweet_time to 0 again)
Restart ==
    /\ pc = "STOPPED"
    /\ pc' = "start"
    /\ last_tweet_time' = 0
    /\ success' = FALSE
    /\ action_name' = "none"
    /\ delay' = 0
    /\ calls' = << >>
    /\ started_empty' = TRUE
    /\ raised' = "none"
    /\ prev' = "none"
    /\ interrupt_at' = "none"
    /\ margin' = {}
    /\ reply_target' = 0
    /\ dedup_skipped' = FALSE
    /\ UNCHANGED <<self, state, now, executed_at, replied_tweets>>
    /\ UNCHANGED outside_loop

\* profiles in which post-tweet has positive weight
InitRestart ==
    /\ \E tasks \in { t \in TaskLists : Positive(t, "post-tweet") },
          config \in Configs, loop_delay \in LoopDelays :
          LoopInit(tasks, config, loop_delay)
    /\ ManagerInit
    /\ configured = {}
    /\ CredIdle
    /\ ServerIdle
    /\ Web3Idle

NextRestart ==
    \/ StartLoop
    \/ Countdown
    \/ CountdownInterrupt
    \/ Replenish
    \/ Select
    \/ PostTweet
    \/ ReplyToTweet
    \/ LikeTweet
    \/ PostEchochambers
    \/ WakeUp
    \/ KeyboardInterrupt
    \/ Tick
    \/ Restart

SpecRestart == InitRestart /\ [][NextRestart]_vars

\* C34: a tweet is posted only when no tweet was posted before on this agent
\* instance or tweet_interval has elapsed since the last one, also across a
\* restart of loop(); likewise for the messages of post-echochambers.
C34_CooldownSurvivesRestart ==
    [][ /\ (/\ pc = "perform"
            /\ action_name = "post-tweet"
            /\ success'
            /\ pc' = "sleep"
            /\ executed_at["post-tweet"] # 0)
           => now - executed_at["post-tweet"] >= self["tweet_interval"]
        /\ (/\ pc = "perform"
            /\ action_name = "post-echochambers"
            /\ success'
            /\ pc' = "sleep"
            /\ executed_at["post-echochambers"] # 0)
           => now - executed_at["post-echochambers"] >= self["echochambers_message_interval"]
      ]_vars

\* C35: when exactly the interval has elapsed since the last execution and no
\* call raises, the selected task executes (the LLM is asked for a text), for
\* post-tweet and for post-echochambers alike.
C35_BoundaryExecutes ==
    [][ /\ (/\ pc = "perform" /\ action_name = "post-tweet" /\ pc' # pc
            /\ interrupt_at' = interrupt_at /\ HasAttr("tweet_interval")
            /\ now - last_tweet_time = self["tweet_interval"]
            /\ raised' = "none")
           => /\ Len(calls') > Len(calls)
              /\ calls'[Len(calls) + 1] = "generate-text"
        /\ (/\ pc = "perform" /\ action_name = "post-echochambers" /\ pc' # pc
            /\ interrupt_at' = interrupt_at /\ HasAttr("echochambers_message_interval")
            /\ now - InitEchoState(state)["echochambers_last_message"]
                   = self["echochambers_message_interval"]
            /\ raised' = "none")
           => /\ Len(calls') > Len(calls) + 1
              /\ calls'[Len(calls) + 2] = "generate-text"
      ]_vars

-----------------------------------------------------------------------------
(* The registered action handlers: src/src/action_handler.py and            *)
(* post_tweet of src/src/actions/twitter_actions.py                         *)

\* the names under which @register_action has stored a handler
action_registry ==
    {"post-tweet", "reply-to-tweet", "like-tweet", "post-echochambers",
     "reply-echochambers", "get-token-by-ticker", "get-sonic-balance",
     "send-sonic", "send-sonic-token", "swap-sonic"}

Handled(res_outcome, res_state, res_invoked) ==
    [outcome |-> res_outcome, state |-> res_state, invoked |-> res_invoked]

\* post_tweet(agent): the local last_tweet_time is assigned (to 0) only when
\* the key is absent from agent.state, and read at line 13 in every case
post_tweet(agent_state, attrs, current_time, tweet_text, posts) ==
    IF "last_tweet_time" \in DOMAIN agent_state
    THEN Handled(Raise("UnboundLocalError", "last_tweet_time"), agent_state, << >>)
    ELSE IF "tweet_interval" \notin DOMAIN attrs
    THEN Handled(Raise("AttributeError", "tweet_interval"), agent_state, << >>)
    ELSE IF current_time - 0 >= attrs["tweet_interval"]
    THEN IF tweet_text = ""
         THEN Handled(Return("None", ""), agent_state, << Call("llm", "generate-text") >>)
         ELSE IF ~posts
         THEN Handled(Raise("ProviderError", "post-tweet"), agent_state,
                      << Call("llm", "generate-text"), Call("twitter", "post-tweet") >>)
         ELSE Handled(Return("True", ""),
                      Assign(agent_state, "last_tweet_time", current_time),
                      << Call("llm", "generate-text"), Call("twitter", "post-tweet") >>)
    ELSE Handled(Return("False", ""), agent_state, << >>)

\* execute_action(agent, action_name): the handler found in the registry is
\* called; the calls made here name post-tweet or an unregistered action
execute_action(agent_state, attrs, action, current_time, tweet_text, posts) ==
    IF action \in action_registry
    THEN post_tweet(agent_state, attrs, current_time, tweet_text, posts)
    ELSE Handled(Return("None", "Action not found"), agent_state, << >>)

\* one call of execute_action; tweet_text is what the LLM returns and posts
\* tells whether the twitter post-tweet call returns
ExecuteAction ==
    /\ \E action \in {"post-tweet", "no-such-action"}, tweet_text \in LlmTexts,
          posts \in BOOLEAN :
          LET res == execute_action(state, self, action, now, tweet_text, posts)
          IN  /\ request' = [op |-> "execute_action", conn |-> "twitter",
                             action |-> action, errors |-> << >>, supplied |-> posts,
                             configured |-> FALSE, text |-> tweet_text, at |-> now,
                             last |-> Get(state, "last_tweet_time", 0)]
              /\ invoked' = res.invoked
              /\ outcome' = res.outcome
              /\ state' = res.state
    /\ UNCHANGED <<self, last_tweet_time, success, action_name, pc, now, delay, calls,
                   started_empty, raised, prev, interrupt_at, margin, executed_at,
                   replied_tweets, reply_target, dedup_skipped>>
    /\ UNCHANGED <<connections, configured>>
    /\ UNCHANGED <<cred_vars, server_vars, web3_vars>>

InitActions ==
    /\ \E tasks \in { t \in TaskLists : Positive(t, "post-tweet") },
          config \in Configs, loop_delay \in LoopDelays :
          LoopInit(tasks, config, loop_delay)
    /\ ManagerInit
    /\ configured = {}
    /\ CredIdle
    /\ ServerIdle
    /\ Web3Idle

NextActions ==
    \/ ExecuteAction
    \/ Tick

SpecActions == InitActions /\ [][NextActions]_vars

\* C36: once a call of the post-tweet handler has stored last_tweet_time, a
\* call made before tweet_interval has elapsed returns False, posts nothing
\* and does not raise; a call made after it, with a text from the LLM and a
\* post that returns, returns True and stores the time of this call.
C36_HandlerCooldown ==
    /\ request.op = "execute_action"
    /\ request.action = "post-tweet"
    /\ request.last # 0
    /\ HasAttr("tweet_interval")
    => IF request.at - request.last < self["tweet_interval"]
       THEN /\ outcome = Return("False", "")
            /\ invoked = << >>
            /\ state["last_tweet_time"] = request.last
       ELSE request.text # "" /\ request.supplied
                => /\ outcome = Return("True", "")
                   /\ state["last_tweet_time"] = request.at

-----------------------------------------------------------------------------
(* Properties of the one-shot command agent-action *)

\* lines 94-113: the action names find_and_perform_action builds keyword
\* arguments for
ArgumentActions == { a \in {"get-latest-tweets", "post-tweet", "like-tweet", "read-timeline"} :
                        parse_args(a, 1, TRUE) # "empty" \/ parse_args(a, 2, TRUE) # "empty" }

\* C37: each action name whose arguments find_and_perform_action parses is
\* registered by the twitter connection, and agent-action twitter
\* get-latest-tweets <username> <count> with an integer count calls the
\* connection's get_latest_tweets instead of ending as an unknown action.
C37_ParsedActionsRegistered ==
    /\ request.op = "find_and_perform_action"
    /\ request.conn = "twitter"
    /\ HasConnection(connections, "twitter")
    /\ request.action \in ArgumentActions
    => /\ request.action \in Actions("twitter")
       /\ request.action = "get-latest-tweets" /\ request.supplied
             /\ outcome # Return("None", "Usage")
          => \E i \in DOMAIN invoked : invoked[i] = Call("twitter", "get_latest_tweets")

-----------------------------------------------------------------------------
(* EVMConnection._initialize_web3 (src/src/connections/evm_connection.py)   *)

MaxChain == 2          \* chain ids range over 1..MaxChain

ChainIds == 1..MaxChain

\* for attempt in range(3)
Attempts == 3

\* if attempt == 2: the attempt after which the error is raised to the caller
LastAttempt == 2

\* what one attempt can build: Web3(...) or the middleware injection raises,
\* or a client that is connected or not and that reports a chain id
AttemptResults ==
    {NoClient} \cup [constructed : {TRUE}, connected : BOOLEAN, chain : ChainIds]

\* faulty variant: the chain id the client reports is not compared
Verified_any_chain(built, expected) ==
    built.constructed /\ built.connected

\* lines 50-61: the attempt reaches break
Verified(built, expected) ==
    /\ built.constructed
    /\ built.connected
    /\ built.chain = expected

\* entry of _initialize_web3, line 47
InitializeWeb3 ==
    /\ web3_pc = "call"
    /\ IF ~web3.constructed
       THEN web3_pc' = "try" /\ attempt' = 0
       ELSE web3_pc' = "returned" /\ UNCHANGED attempt
    /\ UNCHANGED <<web3, chain_id, tries>>
    /\ UNCHANGED outside_web3

\* one pass of the try block and of its except clause, up to time.sleep(1)
Attempt ==
    /\ web3_pc = "try"
    /\ attempt < Attempts
    /\ \E built \in AttemptResults :
          /\ tries' = Append(tries, built)
          /\ web3' = IF built.constructed THEN built ELSE web3
          /\ web3_pc' = IF Verified(built, chain_id) THEN "returned"
                        ELSE IF attempt = LastAttempt THEN "EVMConnectionError"
                        ELSE "sleep"
    /\ UNCHANGED <<chain_id, attempt>>
    /\ UNCHANGED outside_web3

\* time.sleep(1) returns and the for statement takes the next value
NextAttempt ==
    /\ web3_pc = "sleep"
    /\ attempt' = attempt + 1
    /\ web3_pc' = "try"
    /\ UNCHANGED <<web3, chain_id, tries>>
    /\ UNCHANGED outside_web3

InitWeb3 ==
    /\ LoopInit(<< >>, [openai |-> [model |-> "gpt"]], 900)
    /\ ManagerInit
    /\ configured = {}
    /\ CredIdle
    /\ ServerIdle
    /\ web3 = NoClient
    /\ chain_id \in ChainIds
    /\ attempt = 0
    /\ web3_pc = "call"
    /\ tries = << >>

NextWeb3 ==
    \/ InitializeWeb3
    \/ Attempt
    \/ NextAttempt

SpecWeb3 == InitWeb3 /\ [][NextWeb3]_vars

\* C38: _initialize_web3 makes at most 3 attempts, makes none after an attempt
\* whose client is connected and reports the expected chain id, raises
\* EVMConnectionError when the third attempt fails too, and returns only with
\* a client that is connected and on the expected chain.
C38_BoundedRetry ==
    LET Good(built) == built.constructed /\ built.connected /\ built.chain = chain_id
    IN  /\ Len(tries) <= Attempts
        /\ \A i \in 1..(Len(tries) - 1) : ~Good(tries[i])
        /\ web3_pc = "returned" <=> (tries # << >> /\ Good(tries[Len(tries)]))
        /\ web3_pc = "returned" => Good(web3)
        /\ web3_pc = "EVMConnectionError"
              <=> (Len(tries) = Attempts /\ ~Good(tries[Attempts]))

\* the third attempt succeeds after two failed ones, one of which left a client
\* on the wrong chain
C38_Witness ==
    /\ web3_pc = "returned"
    /\ Len(tries) = Attempts
    /\ \E i \in 1..2 : tries[i].connected /\ tries[i].chain # chain_id


====
